---- MODULE Spec2Model ----
(***************************************************************************)
(* Progression engine of the turn-based simulation in src/src/game.rs      *)
(* (PlayerState, GameState, the content catalog, the option shuffler) and  *)
(* the phase controller GameApp of src/src/main.rs.                        *)
(*                                                                         *)
(* Conventions of the model:                                               *)
(*  - Option<T> is a sequence: None is <<>>, Some(x) is <<x>>.             *)
(*  - A Realm is its rank 1..5 in the order of the enum.                   *)
(*  - Texts are tuples <<kind, parameters...>>: the literal or the format  *)
(*    string that produced the text, with the values it was filled with.   *)
(*    Flavour texts that are a function of a catalog id are stood for by   *)
(*    the id.                                                              *)
(*  - `rand::random::<f32>() < p` is a trial whose possible outcomes are    *)
(*    Trial(percent of p); shuffles and index draws are nondeterministic.  *)
(*  - The commands are the methods of GameApp, dispatched by phase as      *)
(*    XiuxianApp::update does, and the two NPC methods of GameState, which *)
(*    the engine offers without a caller in main.rs.  The start_time clock *)
(*    of GameState is not modelled.                                        *)
(***************************************************************************)
EXTENDS Integers, Sequences, FiniteSets, TLC

VARIABLES
    phase,                      \* GameApp.phase
    game_state,                 \* GameApp.game_state: "None" or "Some"
    player_name,                \* GameApp.player_name
    result_message,             \* GameApp.result_message
    player,                     \* GameState.player
    current_day,                \* GameState.current_day
    current_week,               \* GameState.current_week
    today_event,                \* GameState.today_event
    today_weekly_event,         \* GameState.today_weekly_event (Option)
    event_chosen_today,         \* GameState.event_chosen_today
    weekly_event_chosen_today,  \* GameState.weekly_event_chosen_today
    today_npcs,                 \* GameState.today_npcs
    npc_interaction_message,    \* GameState.npc_interaction_message
    npc_active_event,           \* GameState.npc_active_event (Option)
    pending,                    \* unit specifications: the calls still to make
    applied                     \* unit specifications: the calls made, in order

app_vars == <<phase, game_state, player_name, result_message>>

game_vars ==
    <<player, current_day, current_week, today_event, today_weekly_event,
      event_chosen_today, weekly_event_chosen_today, today_npcs,
      npc_interaction_message, npc_active_event>>

harness_vars == <<pending, applied>>

vars == <<app_vars, game_vars, harness_vars>>

----------------------------------------------------------------------------
(* Bounds of the model. *)

\* Day advances of a session started by start_game stop at this day.
MaxDay == 2
\* History entries a session of Spec may hold (choices and NPC resolutions).
MaxChoices == 2
\* The index draws reach the first DailyDraw daily events of the catalog.
DailyDraw == 1
\* The index draws reach the first WeeklyDraw weekly events of the catalog.
WeeklyDraw == 1
\* The roster shuffle brings members among the first NpcDraw to the front.
NpcDraw == 1
\* Choice commands carry a position in 0..MaxChoice.
MaxChoice == 4
\* Failed promotion attempts in a row the model follows.
MaxAttempts == 2
\* SpecLate: the weeks the session has played before it is taken up.
ScriptWeeks == 3
\* SpecReward: length of the gain_reward call sequences.
MaxRewardCalls == 3
\* SpecHistory: number of add_history calls.
MaxAppends == 103
\* SpecRealm: largest experience value drawn.
MaxExp == 600
\* SpecStreak: length of the gain_reward and check_death call sequences.
MaxStreakCalls == 5
\* SpecWeek and SpecDay: GameState::next_day is followed up to this day.
MaxWeekDay == 15
\* SpecPromotion: largest realm_level and promotion_attempts drawn.
MaxLevel == 6
MaxTries == 20
\* SpecRoster: the roster shuffle brings members among the first RosterDraw
\* to the front; the session is followed while its history holds at most
\* RosterChoices entries and its zero-pressure streak is at most RosterStreak.
RosterDraw == 3
RosterChoices == 3
RosterStreak == 2
\* SpecSubset: GameState::next_day is followed up to this day.
SubsetDay == 2
\* SpecSeventh: the session is followed while its history holds at most
\* WeekChoices entries more than at the start.
WeekChoices == 2

----------------------------------------------------------------------------
(* Machine integers.  An i32 is an integer in I32Min..I32Max.  A u32 that  *)
(* can saturate (experience) is the pair [hi, lo] of value hi * 2^31 + lo,  *)
(* hi in 0..1 and lo in 0..I32Max, so that every value of the type is kept *)
(* exactly; the u32 counters that the day bound keeps small are integers.  *)

I32Max == 2147483647
I32Min == -I32Max - 1

Min(a, b) == IF a < b THEN a ELSE b

\* i32::saturating_add
saturating_add_i32(a, b) ==
    IF b > 0 /\ a > I32Max - b THEN I32Max
    ELSE IF b < 0 /\ a < I32Min - b THEN I32Min
    ELSE a + b

\* i32 `+` as the release build computes it (the debug build panics on overflow)
wrapping_add_i32(a, b) ==
    IF b > 0 /\ a > I32Max - b THEN I32Min + ((a - (I32Max - b)) - 1)
    ELSE IF b < 0 /\ a < I32Min - b THEN I32Max - (((I32Min - b) - a) - 1)
    ELSE a + b

\* The u32 of a number in 0..I32Max
u32(n) == [hi |-> 0, lo |-> n]
\* u32::MAX
U32Max == [hi |-> 1, lo |-> I32Max]
\* `<=` and `<` on u32
u32_le(a, b) == a.hi < b.hi \/ (a.hi = b.hi /\ a.lo <= b.lo)
u32_lt(a, b) == a.hi < b.hi \/ (a.hi = b.hi /\ a.lo < b.lo)

\* `x as u32` of an i32 (two's complement reinterpretation)
as_u32(x) == IF x < 0 THEN [hi |-> 1, lo |-> x - I32Min] ELSE [hi |-> 0, lo |-> x]

\* u32::saturating_add
saturating_add_u32(a, b) ==
    LET carry == IF a.lo > I32Max - b.lo THEN 1 ELSE 0
        lo == IF carry = 1 THEN (a.lo - (I32Max - b.lo)) - 1 ELSE a.lo + b.lo
        hi == a.hi + b.hi + carry
    IN  IF hi >= 2 THEN U32Max ELSE [hi |-> hi, lo |-> lo]

\* Ord::clamp
clamp(x, lo, hi) == IF x < lo THEN lo ELSE IF x > hi THEN hi ELSE x
\* A division that rounds toward minus infinity.
div_floor(a, b) == a \div b
\* i32 `/` by a positive divisor: rounds toward zero
div_i32(a, b) == IF a >= 0 \/ a % b = 0 THEN a \div b ELSE (a \div b) + 1
\* u8::saturating_sub
saturating_sub_u8(a, b) == IF a < b THEN 0 ELSE a - b

\* The outcomes `rand::random::<f32>() < pct / 100` can have: the draw lies in [0, 1).
Trial(pct) == IF pct <= 0 THEN {FALSE} ELSE IF pct >= 100 THEN {TRUE} ELSE {TRUE, FALSE}

\* The orders SliceRandom::shuffle can leave a slice of n elements in.
ShuffleOrders(n) == {f \in [1..n -> 1..n] : \A i, j \in 1..n : f[i] = f[j] => i = j}
\* A shuffle that loses an element: every place gets the one drawn first.
shuffle_repeat(s, perm) == [i \in 1..Len(s) |-> s[perm[1]]]
\* SliceRandom::shuffle: the slice in the drawn order.
shuffle(s, perm) == [i \in 1..Len(s) |-> s[perm[i]]]

----------------------------------------------------------------------------
(* Realm *)

\* A tier table whose bands end one experience point early.
from_experience_strict(exp) ==
    IF u32_lt(exp, u32(50)) THEN 1
    ELSE IF u32_lt(exp, u32(150)) THEN 2
    ELSE IF u32_lt(exp, u32(300)) THEN 3
    ELSE IF u32_lt(exp, u32(500)) THEN 4
    ELSE 5

\* Realm::from_experience on a u32
from_experience(exp) ==
    IF u32_le(exp, u32(50)) THEN 1
    ELSE IF u32_le(exp, u32(150)) THEN 2
    ELSE IF u32_le(exp, u32(300)) THEN 3
    ELSE IF u32_le(exp, u32(500)) THEN 4
    ELSE 5

----------------------------------------------------------------------------
(* Content catalog: the reward tuples (skill, pressure) of the authored    *)
(* options, in the order of the source.  Row k is the entry with id k-1.   *)

\* GameState::create_daily_events: options A, B, C of each daily event.
DailyTable ==
    << << <<6, 4>>, <<2, 5>>, <<3, -3>> >>,
       << <<7, 4>>, <<4, 1>>, <<-5, -6>> >>,
       << <<8, 5>>, <<3, 2>>, <<-2, 7>> >>,
       << <<6, 4>>, <<-1, 5>>, <<3, 3>> >>,
       << <<7, 4>>, <<4, 2>>, <<-2, 6>> >>,
       << <<8, 5>>, <<3, 1>>, <<-2, 7>> >>,
       << <<6, 3>>, <<4, 2>>, <<-1, 5>> >>,
       << <<8, 4>>, <<5, 3>>, <<-1, 5>> >>,
       << <<9, 5>>, <<4, 2>>, <<-2, 6>> >>,
       << <<7, 4>>, <<3, 2>>, <<-2, 6>> >>,
       << <<8, 5>>, <<3, 2>>, <<-1, -3>> >>,
       << <<7, 4>>, <<3, 2>>, <<-1, -1>> >>,
       << <<7, 4>>, <<3, 2>>, <<-1, 1>> >>,
       << <<6, 3>>, <<3, 1>>, <<-1, -5>> >>,
       << <<8, 4>>, <<3, 2>>, <<-1, -3>> >>,
       << <<7, 4>>, <<3, 2>>, <<-4, -10>> >>,
       << <<5, 4>>, <<2, 1>>, <<-1, -5>> >>,
       << <<6, 5>>, <<2, 2>>, <<-1, -2>> >>,
       << <<4, 2>>, <<1, 1>>, <<-1, -4>> >>,
       << <<2, 1>>, <<3, -3>>, <<5, 5>> >>,
       << <<3, 5>>, <<1, 2>>, <<-3, 5>> >>,
       << <<3, 5>>, <<0, 6>>, <<-3, -3>> >>,
       << <<4, 1>>, <<0, 4>>, <<-1, -2>> >>,
       << <<2, 5>>, <<1, -1>>, <<-5, 6>> >>,
       << <<2, -3>>, <<0, 2>>, <<-2, 5>> >>,
       << <<3, -2>>, <<1, -4>>, <<3, 10>> >>,
       << <<4, -3>>, <<0, 4>>, <<-2, 5>> >>,
       << <<5, 3>>, <<1, 3>>, <<-3, 4>> >>,
       << <<1, 1>>, <<0, 2>>, <<0, 4>> >>,
       << <<3, 1>>, <<0, -3>>, <<-1, 2>> >>,
       << <<3, -5>>, <<0, 4>>, <<-2, 4>> >>,
       << <<6, -5>>, <<2, -1>>, <<-4, 7>> >>,
       << <<2, -5>>, <<3, 3>>, <<-2, 8>> >>,
       << <<3, 4>>, <<1, -5>>, <<-2, -8>> >>,
       << <<3, -2>>, <<1, -3>>, <<-1, -4>> >>,
       << <<2, -2>>, <<0, 5>>, <<-1, -1>> >>,
       << <<2, -1>>, <<1, 4>>, <<-2, -5>> >>,
       << <<5, 3>>, <<0, 2>>, <<1, -3>> >>,
       << <<2, 1>>, <<0, 4>>, <<-1, -5>> >> >>

\* GameState::create_weekly_events: options A, B, C of each weekly event.
WeeklyTable ==
    << << <<20, 15>>, <<12, 6>>, <<-8, -14>> >>,
       << <<25, 4>>, <<15, 10>>, <<-8, -6>> >>,
       << <<30, 6>>, <<18, 5>>, <<-5, -8>> >>,
       << <<22, 5>>, <<12, 3>>, <<1, -8>> >>,
       << <<25, 5>>, <<15, 3>>, <<-8, -6>> >>,
       << <<25, 5>>, <<15, 3>>, <<-4, -5>> >>,
       << <<28, 5>>, <<16, 3>>, <<-5, -2>> >>,
       << <<25, 5>>, <<15, 3>>, <<-8, -3>> >> >>

\* GameState::create_npcs: accept and reject reward of each NPC.
NpcTable ==
    << << <<2, -4>>, <<0, 2>> >>,
       << <<4, 5>>, <<1, -2>> >>,
       << <<3, 1>>, <<-1, -3>> >>,
       << <<2, 3>>, <<0, -1>> >>,
       << <<1, -3>>, <<0, 1>> >>,
       << <<5, 5>>, <<2, 0>> >>,
       << <<2, -3>>, <<0, 3>> >>,
       << <<3, 2>>, <<-1, -2>> >>,
       << <<3, 4>>, <<-2, -5>> >>,
       << <<2, 1>>, <<-1, -1>> >> >>

\* Every NPC of the roster is authored with two prompt lines.
PromptTemplates == 2

\* OptionInfo; desc and story are a function of the event and original_index.
OptionInfo(value, original_index) == [value |-> value, original_index |-> original_index]

\* DailyEvent::new_shuffled and WeeklyEvent::new_shuffled (the two are the same
\* code): the three authored options, tagged 0, 1, 2 and shuffled.  The authored
\* tuples option_a, option_b, option_c stay in the table under the event's id.
new_shuffled(id, option_a, option_b, option_c, perm) ==
    [id |-> id,
     shuffled_options |->
        shuffle(<<OptionInfo(option_a, 0), OptionInfo(option_b, 1), OptionInfo(option_c, 2)>>,
                perm)]

\* DailyEvent::reshuffle and WeeklyEvent::reshuffle
reshuffle(event, perm) ==
    [event EXCEPT !.shuffled_options = shuffle(@, perm)]

\* The entries daily_events[idx] and weekly_events[idx] can be: the catalog is
\* built once with new_shuffled, so the stored order is one of the shuffle orders.
daily_events(idx) ==
    {new_shuffled(idx, DailyTable[idx + 1][1], DailyTable[idx + 1][2], DailyTable[idx + 1][3], perm) :
        perm \in ShuffleOrders(3)}

weekly_events(idx) ==
    {new_shuffled(idx, WeeklyTable[idx + 1][1], WeeklyTable[idx + 1][2], WeeklyTable[idx + 1][3], perm) :
        perm \in ShuffleOrders(3)}

\* npc_master[idx]: an NpcEncounter; name, description, ai_model and the option
\* texts are a function of the roster index id.
npc_master(idx) ==
    [id |-> idx,
     prompt_templates |-> PromptTemplates,
     accept_option |-> [reward |-> NpcTable[idx + 1][1]],
     reject_option |-> [reward |-> NpcTable[idx + 1][2]],
     interacted |-> FALSE]

\* The values `rand::random::<usize>() % len` takes within the draw bound.
DrawIndex(len, bound) == 0 .. (Min(len, bound) - 1)

\* The prefixes of the shuffled roster refresh_today_npcs can take: `take`
\* distinct roster indices, take in 1..min(3, len), or none of an empty roster.
\* The shuffle brings members among the first `bound` to the front.
RosterPrefixesWithin(bound) ==
    LET len == Len(NpcTable)
        max_take == Min(len, 3)
        front == DrawIndex(len, bound)
    IN  IF max_take = 0 THEN {<<>>}
        ELSE {ids \in UNION {[1..take -> front] : take \in 1..max_take} :
                \A i, j \in DOMAIN ids : ids[i] = ids[j] => i = j}

RosterPrefixes == RosterPrefixesWithin(NpcDraw)

\* today_npcs as refresh_today_npcs builds it from a prefix: interacted cleared.
take_npcs(ids) ==
    [i \in 1..Len(ids) |-> [npc_master(ids[i]) EXCEPT !.interacted = FALSE]]

----------------------------------------------------------------------------
(* PlayerState *)

\* PlayerState::new
new_player(name) ==
    [name |-> name,
     experience |-> u32(0),
     skills |-> 0,
     pressure |-> 0,
     days_played |-> 0,
     is_alive |-> TRUE,
     realm_level |-> 1,
     promotion_attempts |-> 0,
     history |-> <<>>,
     zero_pressure_streak |-> 0,
     died_from_zero_pressure |-> FALSE]

\* PlayerState::get_realm
get_realm(p) == from_experience(p.experience)

\* A gain_reward that holds the pressure at 100 and lets it fall below 0.
gain_reward_no_floor(p, skill_points, pressure_change) ==
    [p EXCEPT
        !.experience = IF skill_points > 0
                       THEN saturating_add_u32(@, as_u32(skill_points))
                       ELSE @,
        !.skills = saturating_add_i32(@, skill_points),
        !.pressure = Min(wrapping_add_i32(@, pressure_change), 100)]

\* A gain_reward that adds the skill points to experience whatever their sign.
gain_reward_any_sign(p, skill_points, pressure_change) ==
    [p EXCEPT
        !.experience = saturating_add_u32(@, as_u32(skill_points)),
        !.skills = saturating_add_i32(@, skill_points),
        !.pressure = clamp(wrapping_add_i32(@, pressure_change), 0, 100)]

\* PlayerState::gain_reward
gain_reward(p, skill_points, pressure_change) ==
    [p EXCEPT
        !.experience = IF skill_points > 0
                       THEN saturating_add_u32(@, as_u32(skill_points))
                       ELSE @,
        !.skills = saturating_add_i32(@, skill_points),
        !.pressure = clamp(wrapping_add_i32(@, pressure_change), 0, 100)]

\* A death chance whose lowest band already carries the 5% of the next one.
death_chance_low_band(pressure) ==
    IF pressure >= 0 /\ pressure <= 29 THEN 5
    ELSE IF pressure >= 30 /\ pressure <= 49 THEN 8
    ELSE IF pressure >= 50 /\ pressure <= 69 THEN 20
    ELSE IF pressure >= 70 /\ pressure <= 100 THEN 40
    ELSE 25

\* The death chance of check_death, in percent, by pressure band.
death_chance(pressure) ==
    IF pressure >= 0 /\ pressure <= 19 THEN 0
    ELSE IF pressure >= 20 /\ pressure <= 29 THEN 5
    ELSE IF pressure >= 30 /\ pressure <= 49 THEN 8
    ELSE IF pressure >= 50 /\ pressure <= 69 THEN 20
    ELSE IF pressure >= 70 /\ pressure <= 100 THEN 40
    ELSE 25

\* A streak that is never reset: it counts the checks at pressure 0 so far.
next_streak_sticky(p) ==
    IF p.pressure = 0 THEN p.zero_pressure_streak + 1 ELSE p.zero_pressure_streak

\* The zero-pressure streak check_death computes before it draws (its
\* saturating_add saturates beyond every day the model reaches).
next_streak(p) ==
    IF p.pressure = 0 THEN p.zero_pressure_streak + 1 ELSE 0

\* A check_death that sets the zero-pressure flag at every death.
check_death_flags_every_death(p, zero_roll, death_roll) ==
    LET q == [p EXCEPT !.died_from_zero_pressure = FALSE,
                       !.zero_pressure_streak = next_streak(p)]
    IN  IF q.zero_pressure_streak >= 2 /\ zero_roll
        THEN [q EXCEPT !.is_alive = FALSE, !.died_from_zero_pressure = TRUE]
        ELSE IF q.skills < 0
        THEN [q EXCEPT !.is_alive = FALSE, !.died_from_zero_pressure = TRUE]
        ELSE IF death_roll
        THEN [q EXCEPT !.is_alive = FALSE, !.died_from_zero_pressure = TRUE]
        ELSE q

\* A check_death without the branch on negative skills.
check_death_by_pressure(p, zero_roll, death_roll) ==
    LET q == [p EXCEPT !.died_from_zero_pressure = FALSE,
                       !.zero_pressure_streak = next_streak(p)]
    IN  IF q.zero_pressure_streak >= 2 /\ zero_roll
        THEN [q EXCEPT !.is_alive = FALSE, !.died_from_zero_pressure = TRUE]
        ELSE IF death_roll
        THEN [q EXCEPT !.is_alive = FALSE]
        ELSE q

\* PlayerState::check_death.  zero_roll is the outcome of the first trial
\* (drawn only when the streak is at least 2), death_roll of the second.
check_death(p, zero_roll, death_roll) ==
    LET q == [p EXCEPT !.died_from_zero_pressure = FALSE,
                       !.zero_pressure_streak = next_streak(p)]
    IN  IF q.zero_pressure_streak >= 2 /\ zero_roll
        THEN [q EXCEPT !.is_alive = FALSE, !.died_from_zero_pressure = TRUE]
        ELSE IF q.skills < 0
        THEN [q EXCEPT !.is_alive = FALSE]
        ELSE IF death_roll
        THEN [q EXCEPT !.is_alive = FALSE]
        ELSE q

\* The outcomes the two trials of check_death can have for player p.
ZeroRolls(p) == IF next_streak(p) >= 2 THEN Trial(15) ELSE {FALSE}
DeathRolls(p) == Trial(death_chance(p.pressure))

\* A get_death_message that looks at the pressure band before the cause.
get_death_message_by_band(p) ==
    IF p.pressure >= 20 /\ p.pressure <= 29 THEN "pressure_20_29"
    ELSE IF p.pressure >= 30 /\ p.pressure <= 49 THEN "pressure_30_49"
    ELSE IF p.pressure >= 50 /\ p.pressure <= 69 THEN "pressure_50_69"
    ELSE IF p.pressure >= 70 /\ p.pressure <= 100 THEN "pressure_70_100"
    ELSE IF p.died_from_zero_pressure THEN "zero_pressure"
    ELSE IF p.skills < 0 THEN "fired"
    ELSE "game_over"

\* PlayerState::get_death_message: which literal is returned.
get_death_message(p) ==
    IF p.died_from_zero_pressure THEN "zero_pressure"
    ELSE IF p.skills < 0 THEN "fired"
    ELSE IF p.pressure >= 20 /\ p.pressure <= 29 THEN "pressure_20_29"
    ELSE IF p.pressure >= 30 /\ p.pressure <= 49 THEN "pressure_30_49"
    ELSE IF p.pressure >= 50 /\ p.pressure <= 69 THEN "pressure_50_69"
    ELSE IF p.pressure >= 70 /\ p.pressure <= 100 THEN "pressure_70_100"
    ELSE "game_over"

\* The skill requirement of can_promote by realm_level.
skill_requirement(realm_level) ==
    IF realm_level = 1 THEN 50
    ELSE IF realm_level = 2 THEN 150
    ELSE IF realm_level = 3 THEN 300
    ELSE IF realm_level = 4 THEN 500
    ELSE 9999

\* A can_promote that asks for more than the requirement.
can_promote_strict(p) == p.skills > skill_requirement(p.realm_level)

\* PlayerState::can_promote
can_promote(p) == p.skills >= skill_requirement(p.realm_level)

\* A failure rate that does not count the attempt being made.
failure_rate_from_zero(p) == Min(5 * p.promotion_attempts, 95)

\* The failure rate of attempt_promotion, in percent.
failure_rate(p) == Min(5 * (p.promotion_attempts + 1), 95)

\* An attempt_promotion whose failure also takes the experience.
attempt_promotion_costly(p, failed) ==
    IF failed
    THEN [p EXCEPT !.skills = @ - div_i32(p.skills, 2),
                   !.experience = u32(0),
                   !.promotion_attempts = @ + 1]
    ELSE [p EXCEPT !.realm_level = @ + 1, !.promotion_attempts = 0]

\* An attempt_promotion whose success keeps the count of failed attempts.
attempt_promotion_no_reset(p, failed) ==
    IF failed
    THEN [p EXCEPT !.skills = @ - div_i32(p.skills, 2),
                   !.promotion_attempts = @ + 1]
    ELSE [p EXCEPT !.realm_level = @ + 1]

\* PlayerState::attempt_promotion: the player afterwards; failed is the outcome
\* of the trial against failure_rate.
attempt_promotion(p, failed) ==
    IF failed
    THEN LET lost_skills == div_i32(p.skills, 2)
         IN  [p EXCEPT !.skills = @ - lost_skills,
                       !.promotion_attempts = @ + 1]
    ELSE [p EXCEPT !.realm_level = @ + 1, !.promotion_attempts = 0]

\* The message attempt_promotion returns.
promotion_message(p, failed) ==
    IF failed
    THEN <<"promotion_failed", div_i32(p.skills, 2)>>
    ELSE <<"promoted", get_realm(attempt_promotion(p, failed))>>

\* format_delta, and the same formatting inside add_history: sign and digits.
format_delta(value) ==
    IF value >= 0 THEN <<"+", value>> ELSE <<"-", -value>>

\* The line add_history formats.
history_line(p, record, skill_change, pressure_change) ==
    [day |-> p.days_played + 1,
     record |-> record,
     skill_text |-> format_delta(skill_change),
     pressure_text |-> format_delta(pressure_change)]

\* The cap of the history log.
HistoryCap == 100

\* An add_history that drops the new line instead of the oldest.
add_history_drop_newest(p, record, skill_change, pressure_change) ==
    LET pushed == Append(p.history, history_line(p, record, skill_change, pressure_change))
    IN  [p EXCEPT !.history = IF Len(pushed) > HistoryCap
                              THEN SubSeq(pushed, 1, HistoryCap) ELSE pushed]

\* PlayerState::add_history
add_history(p, record, skill_change, pressure_change) ==
    LET pushed == Append(p.history, history_line(p, record, skill_change, pressure_change))
    IN  [p EXCEPT !.history = IF Len(pushed) > HistoryCap THEN Tail(pushed) ELSE pushed]

----------------------------------------------------------------------------
(* GameState *)

\* What a draw of today's daily event can give: daily_events[idx].clone()
\* followed by reshuffle.
DrawnDaily ==
    [idx \in DrawIndex(Len(DailyTable), DailyDraw) |->
        {reshuffle(event, perm) : event \in daily_events(idx), perm \in ShuffleOrders(3)}]

\* What a draw of the weekly event can give.
DrawnWeekly ==
    [idx \in DrawIndex(Len(WeeklyTable), WeeklyDraw) |->
        {reshuffle(event, perm) : event \in weekly_events(idx), perm \in ShuffleOrders(3)}]

\* A refresh that leaves the prompt of the day before standing.
refresh_today_npcs_keeps_prompt(ids) ==
    /\ today_npcs' = take_npcs(ids)
    /\ npc_interaction_message' = <<>>
    /\ npc_active_event' = npc_active_event

\* GameState::refresh_today_npcs, ids being the prefix of the shuffled roster.
refresh_today_npcs(ids) ==
    /\ today_npcs' = take_npcs(ids)
    /\ npc_interaction_message' = <<>>
    /\ npc_active_event' = <<>>

\* GameState::new with the draws it makes.
GameState_new(name, event, ids) ==
    /\ player' = new_player(name)
    /\ current_day' = 1
    /\ current_week' = 1
    /\ today_event' = event
    /\ today_weekly_event' = <<>>
    /\ event_chosen_today' = FALSE
    /\ weekly_event_chosen_today' = FALSE
    /\ refresh_today_npcs(ids)

\* A week counter that moves on the day after every seventh day.
week_after_late(day, week) == IF day % 7 = 1 THEN week + 1 ELSE week

\* The week counter after next_day has moved to `day`.
week_after(day, week) == IF day % 7 = 0 THEN week + 1 ELSE week

\* The weekly event slot after next_day has moved to `day`: a drawn and
\* reshuffled weekly event on every seventh day, none on the others.
weekly_after(day) ==
    IF day % 7 = 0
    THEN {<<weekly>> : weekly \in UNION {DrawnWeekly[widx] : widx \in DOMAIN DrawnWeekly}}
    ELSE {<<>>}

\* A next_day that leaves the week counter as it is.
next_day_keeps_week(p, event, weekly, ids) ==
    /\ current_day' = current_day + 1
    /\ player' = [p EXCEPT !.days_played = @ + 1]
    /\ event_chosen_today' = FALSE
    /\ weekly_event_chosen_today' = FALSE
    /\ current_week' = current_week
    /\ today_event' = event
    /\ today_weekly_event' = weekly
    /\ refresh_today_npcs(ids)

\* A next_day that advances the day counter of the session only.
next_day_keeps_days_played(p, event, weekly, ids) ==
    /\ current_day' = current_day + 1
    /\ player' = p
    /\ event_chosen_today' = FALSE
    /\ weekly_event_chosen_today' = FALSE
    /\ current_week' = week_after(current_day + 1, current_week)
    /\ today_event' = event
    /\ today_weekly_event' = weekly
    /\ refresh_today_npcs(ids)

\* A next_day that leaves the guard of the daily choice as it is.
next_day_keeps_guard(p, event, weekly, ids) ==
    /\ current_day' = current_day + 1
    /\ player' = [p EXCEPT !.days_played = @ + 1]
    /\ event_chosen_today' = event_chosen_today
    /\ weekly_event_chosen_today' = FALSE
    /\ current_week' = IF (current_day + 1) % 7 = 0 THEN current_week + 1 ELSE current_week
    /\ today_event' = event
    /\ today_weekly_event' = weekly
    /\ today_npcs' = [i \in 1..Len(ids) |-> [npc_master(ids[i]) EXCEPT !.interacted = FALSE]]
    /\ npc_interaction_message' = <<>>
    /\ npc_active_event' = <<>>

\* GameState::next_day on the player record p, with the outcome of its draws:
\* the daily event, the weekly event slot, the prefix of the shuffled roster.
next_day(p, event, weekly, ids) ==
    /\ current_day' = current_day + 1
    /\ player' = [p EXCEPT !.days_played = @ + 1]
    /\ event_chosen_today' = FALSE
    /\ weekly_event_chosen_today' = FALSE
    /\ current_week' = week_after(current_day + 1, current_week)
    /\ today_event' = event
    /\ today_weekly_event' = weekly
    /\ refresh_today_npcs(ids)

\* next_day under every outcome of its draws.  The bounded model follows a
\* session up to day last_day.
NextDayDrawsFrom(p, last_day, prefixes) ==
    /\ current_day < last_day
    /\ \E idx \in DOMAIN DrawnDaily :
        \E event \in DrawnDaily[idx], weekly \in weekly_after(current_day + 1),
           ids \in prefixes :
            next_day(p, event, weekly, ids)

NextDayDraws(p, last_day) == NextDayDrawsFrom(p, last_day, RosterPrefixes)

\* A resolve that forgets to set the flag.
mark_interacted_skipped(npcs, npc_index) == npcs

\* A resolve that closes every NPC of the subset.
mark_interacted_all(npcs, npc_index) ==
    [i \in DOMAIN npcs |-> [npcs[i] EXCEPT !.interacted = TRUE]]

\* The flag resolve_active_npc_event sets on the NPC at npc_index.
mark_interacted(npcs, npc_index) ==
    [npcs EXCEPT ![npc_index + 1].interacted = TRUE]

\* A trigger_npc_event whose already-handled branch leaves the prompt slot as
\* it finds it.
trigger_npc_event_keeps_prompt(index) ==
    IF ~player.is_alive
    THEN /\ npc_active_event' = <<>>
         /\ npc_interaction_message' = <<"left_company">>
         /\ UNCHANGED <<app_vars, harness_vars, player, current_day, current_week,
                        today_event, today_weekly_event, event_chosen_today,
                        weekly_event_chosen_today, today_npcs>>
    ELSE IF index >= Len(today_npcs)
    THEN UNCHANGED vars
    ELSE LET npc == today_npcs[index + 1]
         IN  /\ IF npc.interacted
                THEN /\ npc_interaction_message' = <<"already_handled", npc.id>>
                     /\ npc_active_event' = npc_active_event
                ELSE \E dialogue \in 0 .. (npc.prompt_templates - 1) :
                        /\ npc_active_event' = <<[npc_index |-> index, prompt |-> dialogue]>>
                        /\ npc_interaction_message' = <<"prompt", npc.id, dialogue>>
             /\ UNCHANGED <<app_vars, harness_vars, player, current_day, current_week,
                            today_event, today_weekly_event, event_chosen_today,
                            weekly_event_chosen_today, today_npcs>>

\* A trigger_npc_event that marks the NPC it puts the prompt up for.
trigger_npc_event_marks(index) ==
    IF ~player.is_alive
    THEN /\ npc_active_event' = <<>>
         /\ npc_interaction_message' = <<"left_company">>
         /\ UNCHANGED <<app_vars, harness_vars, player, current_day, current_week,
                        today_event, today_weekly_event, event_chosen_today,
                        weekly_event_chosen_today, today_npcs>>
    ELSE IF index >= Len(today_npcs)
    THEN UNCHANGED vars
    ELSE LET npc == today_npcs[index + 1]
         IN  /\ IF npc.interacted
                THEN /\ npc_interaction_message' = <<"already_handled", npc.id>>
                     /\ npc_active_event' = <<>>
                     /\ today_npcs' = today_npcs
                ELSE \E dialogue \in 0 .. (npc.prompt_templates - 1) :
                        /\ npc_active_event' = <<[npc_index |-> index, prompt |-> dialogue]>>
                        /\ npc_interaction_message' = <<"prompt", npc.id, dialogue>>
                        /\ today_npcs' = [today_npcs EXCEPT ![index + 1].interacted = TRUE]
             /\ UNCHANGED <<app_vars, harness_vars, player, current_day, current_week,
                            today_event, today_weekly_event, event_chosen_today,
                            weekly_event_chosen_today>>

\* GameState::trigger_npc_event
trigger_npc_event(index) ==
    IF ~player.is_alive
    THEN /\ npc_active_event' = <<>>
         /\ npc_interaction_message' = <<"left_company">>
         /\ UNCHANGED <<app_vars, harness_vars, player, current_day, current_week,
                        today_event, today_weekly_event, event_chosen_today,
                        weekly_event_chosen_today, today_npcs>>
    ELSE IF index >= Len(today_npcs)
    THEN UNCHANGED vars
    ELSE LET npc == today_npcs[index + 1]
         IN  /\ IF npc.interacted
                THEN /\ npc_interaction_message' = <<"already_handled", npc.id>>
                     /\ npc_active_event' = <<>>
                ELSE \E dialogue \in 0 .. (npc.prompt_templates - 1) :
                        /\ npc_active_event' = <<[npc_index |-> index, prompt |-> dialogue]>>
                        /\ npc_interaction_message' = <<"prompt", npc.id, dialogue>>
             /\ UNCHANGED <<app_vars, harness_vars, player, current_day, current_week,
                            today_event, today_weekly_event, event_chosen_today,
                            weekly_event_chosen_today, today_npcs>>

\* A resolve that leaves the prompt it has answered standing.
resolve_active_npc_event_keeps_prompt(decision) ==
    IF ~player.is_alive
    THEN /\ npc_active_event' = <<>>
         /\ npc_interaction_message' = <<"left_company">>
         /\ UNCHANGED <<app_vars, harness_vars, player, current_day, current_week,
                        today_event, today_weekly_event, event_chosen_today,
                        weekly_event_chosen_today, today_npcs>>
    ELSE IF npc_active_event = <<>>
    THEN UNCHANGED vars
    ELSE IF npc_active_event[1].npc_index >= Len(today_npcs)
    THEN UNCHANGED vars
    ELSE LET npc_index == npc_active_event[1].npc_index
             npc == today_npcs[npc_index + 1]
             option == IF decision = "accept" THEN npc.accept_option ELSE npc.reject_option
             skill == option.reward[1]
             pressure == option.reward[2]
         IN  IF npc.interacted
             THEN /\ npc_active_event' = <<>>
                  /\ npc_interaction_message' = <<"finished", npc.id>>
                  /\ UNCHANGED <<app_vars, harness_vars, player, current_day, current_week,
                                 today_event, today_weekly_event, event_chosen_today,
                                 weekly_event_chosen_today, today_npcs>>
             ELSE /\ today_npcs' = mark_interacted(today_npcs, npc_index)
                  /\ player' = add_history(gain_reward(player, skill, pressure),
                                           <<"npc", npc.id, decision>>, skill, pressure)
                  /\ npc_interaction_message' =
                        <<"resolved", npc.id, decision, format_delta(skill), format_delta(pressure)>>
                  /\ npc_active_event' = npc_active_event
                  /\ UNCHANGED <<app_vars, harness_vars, current_day, current_week,
                                 today_event, today_weekly_event, event_chosen_today,
                                 weekly_event_chosen_today>>

\* A resolve that takes the first NPC of the subset when no prompt is up.
resolve_active_npc_event_first(decision) ==
    IF ~player.is_alive
    THEN /\ npc_active_event' = <<>>
         /\ npc_interaction_message' = <<"left_company">>
         /\ UNCHANGED <<app_vars, harness_vars, player, current_day, current_week,
                        today_event, today_weekly_event, event_chosen_today,
                        weekly_event_chosen_today, today_npcs>>
    ELSE LET npc_index == IF npc_active_event = <<>> THEN 0
                          ELSE npc_active_event[1].npc_index
         IN  IF npc_index >= Len(today_npcs)
             THEN UNCHANGED vars
             ELSE LET npc == today_npcs[npc_index + 1]
                      option == IF decision = "accept" THEN npc.accept_option
                                ELSE npc.reject_option
                      skill == option.reward[1]
                      pressure == option.reward[2]
                  IN  IF npc.interacted
                      THEN /\ npc_active_event' = <<>>
                           /\ npc_interaction_message' = <<"finished", npc.id>>
                           /\ UNCHANGED <<app_vars, harness_vars, player, current_day,
                                          current_week, today_event, today_weekly_event,
                                          event_chosen_today, weekly_event_chosen_today,
                                          today_npcs>>
                      ELSE /\ today_npcs' = mark_interacted(today_npcs, npc_index)
                           /\ player' = add_history(gain_reward(player, skill, pressure),
                                                    <<"npc", npc.id, decision>>, skill, pressure)
                           /\ npc_interaction_message' =
                                <<"resolved", npc.id, decision, format_delta(skill),
                                  format_delta(pressure)>>
                           /\ npc_active_event' = <<>>
                           /\ UNCHANGED <<app_vars, harness_vars, current_day, current_week,
                                          today_event, today_weekly_event, event_chosen_today,
                                          weekly_event_chosen_today>>

\* GameState::resolve_active_npc_event; decision is "accept" or "reject".
resolve_active_npc_event(decision) ==
    IF ~player.is_alive
    THEN /\ npc_active_event' = <<>>
         /\ npc_interaction_message' = <<"left_company">>
         /\ UNCHANGED <<app_vars, harness_vars, player, current_day, current_week,
                        today_event, today_weekly_event, event_chosen_today,
                        weekly_event_chosen_today, today_npcs>>
    ELSE IF npc_active_event = <<>>
    THEN UNCHANGED vars
    ELSE IF npc_active_event[1].npc_index >= Len(today_npcs)
    THEN UNCHANGED vars
    ELSE LET npc_index == npc_active_event[1].npc_index
             npc == today_npcs[npc_index + 1]
             option == IF decision = "accept" THEN npc.accept_option ELSE npc.reject_option
             skill == option.reward[1]
             pressure == option.reward[2]
         IN  IF npc.interacted
             THEN /\ npc_active_event' = <<>>
                  /\ npc_interaction_message' = <<"finished", npc.id>>
                  /\ UNCHANGED <<app_vars, harness_vars, player, current_day, current_week,
                                 today_event, today_weekly_event, event_chosen_today,
                                 weekly_event_chosen_today, today_npcs>>
             ELSE /\ today_npcs' = mark_interacted(today_npcs, npc_index)
                  /\ player' = add_history(gain_reward(player, skill, pressure),
                                           <<"npc", npc.id, decision>>, skill, pressure)
                  /\ npc_interaction_message' =
                        <<"resolved", npc.id, decision, format_delta(skill), format_delta(pressure)>>
                  /\ npc_active_event' = <<>>
                  /\ UNCHANGED <<app_vars, harness_vars, current_day, current_week,
                                 today_event, today_weekly_event, event_chosen_today,
                                 weekly_event_chosen_today>>

----------------------------------------------------------------------------
(* GameApp *)

\* The texts the name field can hold, and str::trim on them.
PlayerNames == {"", " ", "Test"}
trim(text) == IF text = " " THEN "" ELSE text

\* The fields of GameState while GameApp.game_state is None.
NoGame ==
    /\ player = new_player("")
    /\ current_day = 0
    /\ current_week = 0
    /\ today_event = [id |-> 0, shuffled_options |-> <<>>]
    /\ today_weekly_event = <<>>
    /\ event_chosen_today = FALSE
    /\ weekly_event_chosen_today = FALSE
    /\ today_npcs = <<>>
    /\ npc_interaction_message = <<>>
    /\ npc_active_event = <<>>

\* GameApp::new
GameApp_new ==
    /\ phase = "Start"
    /\ game_state = "None"
    /\ player_name = ""
    /\ result_message = <<>>
    /\ NoGame

\* The name field of draw_start, bound to GameApp.player_name.
edit_player_name(text) ==
    /\ player_name' = text
    /\ UNCHANGED <<phase, game_state, result_message, game_vars, harness_vars>>

\* GameApp::start_game
start_game ==
    IF trim(player_name) # ""
    THEN /\ \E idx \in DOMAIN DrawnDaily :
            \E event \in DrawnDaily[idx], ids \in RosterPrefixes :
                GameState_new(player_name, event, ids)
         /\ game_state' = "Some"
         /\ phase' = "EventDisplay"
         /\ result_message' = <<>>
         /\ UNCHANGED <<player_name, harness_vars>>
    ELSE UNCHANGED vars

\* The index apply_choice looks up for a 1-based position.
choice_index(choice) == saturating_sub_u8(choice, 1)

\* A lookup by authored slot: the position indexes the options A, B, C of the
\* event instead of the presented order.
choose_daily_option_by_slot(choice) ==
    IF choice_index(choice) >= Len(today_event.shuffled_options)
    THEN UNCHANGED vars
    ELSE LET value == DailyTable[today_event.id + 1][choice_index(choice) + 1]
         IN  /\ player' = add_history(gain_reward(player, value[1], value[2]),
                                      <<"daily", today_event.id, choice_index(choice)>>,
                                      value[1], value[2])
             /\ event_chosen_today' = TRUE
             /\ IF today_weekly_event # <<>>
                THEN /\ phase' = "WeeklyEventDisplay"
                     /\ result_message' = <<"story_weekly_triggered", today_event.id,
                                            choice_index(choice), today_weekly_event[1].id>>
                ELSE /\ phase' = phase
                     /\ result_message' = <<"story_next_day", today_event.id,
                                            choice_index(choice)>>
             /\ UNCHANGED <<game_state, player_name, harness_vars, current_day, current_week,
                            today_event, today_weekly_event, weekly_event_chosen_today,
                            today_npcs, npc_interaction_message, npc_active_event>>

\* GameApp::apply_choice, EventDisplay arm past the guard: the index lookup
\* and the application of the option found.
choose_daily_option(choice) ==
    IF choice_index(choice) >= Len(today_event.shuffled_options)
    THEN UNCHANGED vars
    ELSE LET option == today_event.shuffled_options[choice_index(choice) + 1]
             skill_reward == option.value[1]
             pressure_change == option.value[2]
         IN  /\ player' = add_history(gain_reward(player, skill_reward, pressure_change),
                                      <<"daily", today_event.id, option.original_index>>,
                                      skill_reward, pressure_change)
             /\ event_chosen_today' = TRUE
             /\ IF today_weekly_event # <<>>
                THEN /\ phase' = "WeeklyEventDisplay"
                     /\ result_message' = <<"story_weekly_triggered", today_event.id,
                                            option.original_index, today_weekly_event[1].id>>
                ELSE /\ phase' = phase
                     /\ result_message' = <<"story_next_day", today_event.id,
                                            option.original_index>>
             /\ UNCHANGED <<game_state, player_name, harness_vars, current_day, current_week,
                            today_event, today_weekly_event, weekly_event_chosen_today,
                            today_npcs, npc_interaction_message, npc_active_event>>

\* An EventDisplay arm without the event_chosen_today guard.
apply_daily_choice_unguarded(choice) == choose_daily_option(choice)

\* GameApp::apply_choice, EventDisplay arm
apply_daily_choice(choice) ==
    IF event_chosen_today
    THEN /\ result_message' = <<"already_chosen_today">>
         /\ UNCHANGED <<phase, game_state, player_name, game_vars, harness_vars>>
    ELSE choose_daily_option(choice)

\* A WeeklyEventDisplay arm that leaves the weekly event in its slot.
apply_weekly_choice_keeps_event(choice) ==
    IF weekly_event_chosen_today
    THEN /\ result_message' = <<"weekly_already_done">>
         /\ UNCHANGED <<phase, game_state, player_name, game_vars, harness_vars>>
    ELSE IF today_weekly_event = <<>>
    THEN UNCHANGED vars
    ELSE IF choice_index(choice) >= Len(today_weekly_event[1].shuffled_options)
    THEN UNCHANGED vars
    ELSE LET weekly == today_weekly_event[1]
             option == weekly.shuffled_options[choice_index(choice) + 1]
         IN  /\ player' = add_history(gain_reward(player, option.value[1], option.value[2]),
                                      <<"weekly", weekly.id, option.original_index>>,
                                      option.value[1], option.value[2])
             /\ weekly_event_chosen_today' = TRUE
             /\ phase' = "EventDisplay"
             /\ result_message' = <<"story_weekly_done", weekly.id, option.original_index>>
             /\ UNCHANGED <<game_state, player_name, harness_vars, current_day, current_week,
                            today_event, today_weekly_event, event_chosen_today, today_npcs,
                            npc_interaction_message, npc_active_event>>

\* GameApp::apply_choice, WeeklyEventDisplay arm
apply_weekly_choice(choice) ==
    IF weekly_event_chosen_today
    THEN /\ result_message' = <<"weekly_already_done">>
         /\ UNCHANGED <<phase, game_state, player_name, game_vars, harness_vars>>
    ELSE IF today_weekly_event = <<>>
    THEN UNCHANGED vars
    ELSE IF choice_index(choice) >= Len(today_weekly_event[1].shuffled_options)
    THEN UNCHANGED vars
    ELSE LET weekly == today_weekly_event[1]
             option == weekly.shuffled_options[choice_index(choice) + 1]
             skill_reward == option.value[1]
             pressure_change == option.value[2]
         IN  /\ player' = add_history(gain_reward(player, skill_reward, pressure_change),
                                      <<"weekly", weekly.id, option.original_index>>,
                                      skill_reward, pressure_change)
             /\ weekly_event_chosen_today' = TRUE
             /\ today_weekly_event' = <<>>
             /\ phase' = "EventDisplay"
             /\ result_message' = <<"story_weekly_done", weekly.id, option.original_index>>
             /\ UNCHANGED <<game_state, player_name, harness_vars, current_day, current_week,
                            today_event, event_chosen_today, today_npcs,
                            npc_interaction_message, npc_active_event>>

\* GameApp::apply_choice
apply_choice(choice) ==
    IF game_state = "None" THEN UNCHANGED vars
    ELSE IF phase = "EventDisplay" THEN apply_daily_choice(choice)
    ELSE IF phase = "WeeklyEventDisplay" THEN apply_weekly_choice(choice)
    ELSE UNCHANGED vars

\* The percentage GameApp::next_day shows in the promotion prompt.
failure_percent(p) == Min(5 * (p.promotion_attempts + 1), 95)

\* A next_day that offers the promotion before it looks at is_alive.
GameApp_next_day_promotion_first(last_day) ==
    IF game_state = "None" THEN UNCHANGED vars
    ELSE \E zero_roll \in ZeroRolls(player), death_roll \in DeathRolls(player) :
        LET p == check_death(player, zero_roll, death_roll)
        IN  IF can_promote(p)
            THEN /\ player' = p
                 /\ phase' = "PromotionConfirm"
                 /\ result_message' = <<"promotion_prompt", failure_percent(p)>>
                 /\ UNCHANGED <<game_state, player_name, harness_vars, current_day,
                                current_week, today_event, today_weekly_event,
                                event_chosen_today, weekly_event_chosen_today, today_npcs,
                                npc_interaction_message, npc_active_event>>
            ELSE IF ~p.is_alive
            THEN /\ player' = p
                 /\ phase' = "GameOver"
                 /\ result_message' = <<"game_over", get_death_message(p), p.days_played,
                                        p.skills, p.pressure, get_realm(p)>>
                 /\ UNCHANGED <<game_state, player_name, harness_vars, current_day,
                                current_week, today_event, today_weekly_event,
                                event_chosen_today, weekly_event_chosen_today, today_npcs,
                                npc_interaction_message, npc_active_event>>
            ELSE /\ NextDayDraws(p, last_day)
                 /\ phase' = "EventDisplay"
                 /\ result_message' = <<>>
                 /\ UNCHANGED <<game_state, player_name, harness_vars>>

\* A next_day that reports a death and leaves the phase as it is.
GameApp_next_day_no_game_over(last_day) ==
    IF game_state = "None" THEN UNCHANGED vars
    ELSE \E zero_roll \in ZeroRolls(player), death_roll \in DeathRolls(player) :
        LET p == check_death(player, zero_roll, death_roll)
        IN  IF ~p.is_alive
            THEN /\ player' = p
                 /\ phase' = phase
                 /\ result_message' = <<"game_over", get_death_message(p), p.days_played,
                                        p.skills, p.pressure, get_realm(p)>>
                 /\ UNCHANGED <<game_state, player_name, harness_vars, current_day,
                                current_week, today_event, today_weekly_event,
                                event_chosen_today, weekly_event_chosen_today, today_npcs,
                                npc_interaction_message, npc_active_event>>
            ELSE IF can_promote(p)
            THEN /\ player' = p
                 /\ phase' = "PromotionConfirm"
                 /\ result_message' = <<"promotion_prompt", failure_percent(p)>>
                 /\ UNCHANGED <<game_state, player_name, harness_vars, current_day,
                                current_week, today_event, today_weekly_event,
                                event_chosen_today, weekly_event_chosen_today, today_npcs,
                                npc_interaction_message, npc_active_event>>
            ELSE /\ NextDayDraws(p, last_day)
                 /\ phase' = "EventDisplay"
                 /\ result_message' = <<>>
                 /\ UNCHANGED <<game_state, player_name, harness_vars>>

\* A next_day that runs check_death a second time when the first left the
\* player alive.
GameApp_next_day_checks_twice(last_day) ==
    IF game_state = "None" THEN UNCHANGED vars
    ELSE \E zero_roll \in ZeroRolls(player), death_roll \in DeathRolls(player) :
        LET once == check_death(player, zero_roll, death_roll)
            p == IF once.is_alive THEN check_death(once, FALSE, FALSE) ELSE once
        IN  IF ~p.is_alive
            THEN /\ player' = p
                 /\ phase' = "GameOver"
                 /\ result_message' = <<"game_over", get_death_message(p), p.days_played,
                                        p.skills, p.pressure, get_realm(p)>>
                 /\ UNCHANGED <<game_state, player_name, harness_vars, current_day,
                                current_week, today_event, today_weekly_event,
                                event_chosen_today, weekly_event_chosen_today, today_npcs,
                                npc_interaction_message, npc_active_event>>
            ELSE IF can_promote(p)
            THEN /\ player' = p
                 /\ phase' = "PromotionConfirm"
                 /\ result_message' = <<"promotion_prompt", failure_percent(p)>>
                 /\ UNCHANGED <<game_state, player_name, harness_vars, current_day,
                                current_week, today_event, today_weekly_event,
                                event_chosen_today, weekly_event_chosen_today, today_npcs,
                                npc_interaction_message, npc_active_event>>
            ELSE /\ NextDayDraws(p, last_day)
                 /\ phase' = "EventDisplay"
                 /\ result_message' = <<>>
                 /\ UNCHANGED <<game_state, player_name, harness_vars>>

\* GameApp::next_day
GameApp_next_day(last_day) ==
    IF game_state = "None" THEN UNCHANGED vars
    ELSE \E zero_roll \in ZeroRolls(player), death_roll \in DeathRolls(player) :
        LET p == check_death(player, zero_roll, death_roll)
        IN  IF ~p.is_alive
            THEN /\ player' = p
                 /\ phase' = "GameOver"
                 /\ result_message' = <<"game_over", get_death_message(p), p.days_played,
                                        p.skills, p.pressure, get_realm(p)>>
                 /\ UNCHANGED <<game_state, player_name, harness_vars, current_day,
                                current_week, today_event, today_weekly_event,
                                event_chosen_today, weekly_event_chosen_today, today_npcs,
                                npc_interaction_message, npc_active_event>>
            ELSE IF can_promote(p)
            THEN /\ player' = p
                 /\ phase' = "PromotionConfirm"
                 /\ result_message' = <<"promotion_prompt", failure_percent(p)>>
                 /\ UNCHANGED <<game_state, player_name, harness_vars, current_day,
                                current_week, today_event, today_weekly_event,
                                event_chosen_today, weekly_event_chosen_today, today_npcs,
                                npc_interaction_message, npc_active_event>>
            ELSE /\ NextDayDraws(p, last_day)
                 /\ phase' = "EventDisplay"
                 /\ result_message' = <<>>
                 /\ UNCHANGED <<game_state, player_name, harness_vars>>

\* GameApp::promote_yes
promote_yes(last_day) ==
    IF game_state = "None" THEN UNCHANGED vars
    ELSE \E failed \in Trial(failure_rate(player)) :
        LET p == attempt_promotion(player, failed)
        IN  IF ~failed
            THEN /\ NextDayDraws(p, last_day)
                 /\ phase' = "EventDisplay"
                 /\ result_message' = promotion_message(player, failed)
                 /\ UNCHANGED <<game_state, player_name, harness_vars>>
            ELSE /\ player' = p
                 /\ result_message' = promotion_message(player, failed) \o <<"keep_trying">>
                 /\ UNCHANGED <<phase, game_state, player_name, harness_vars, current_day,
                                current_week, today_event, today_weekly_event,
                                event_chosen_today, weekly_event_chosen_today, today_npcs,
                                npc_interaction_message, npc_active_event>>

\* A promote_no that returns to the event of the same day.
promote_no_same_day(last_day) ==
    IF game_state = "None" THEN UNCHANGED vars
    ELSE /\ phase' = "EventDisplay"
         /\ result_message' = <<>>
         /\ UNCHANGED <<game_state, player_name, harness_vars, game_vars>>

\* GameApp::promote_no
promote_no(last_day) ==
    IF game_state = "None" THEN UNCHANGED vars
    ELSE /\ NextDayDraws(player, last_day)
         /\ phase' = "EventDisplay"
         /\ result_message' = <<>>
         /\ UNCHANGED <<game_state, player_name, harness_vars>>

\* A restart that goes back to the start screen and keeps the session.
restart_phase_only ==
    /\ phase' = "Start"
    /\ UNCHANGED <<game_state, player_name, result_message, game_vars, harness_vars>>

\* GameApp::restart: *self = GameApp::new()
restart ==
    /\ phase' = "Start"
    /\ game_state' = "None"
    /\ player_name' = ""
    /\ result_message' = <<>>
    /\ player' = new_player("")
    /\ current_day' = 0
    /\ current_week' = 0
    /\ today_event' = [id |-> 0, shuffled_options |-> <<>>]
    /\ today_weekly_event' = <<>>
    /\ event_chosen_today' = FALSE
    /\ weekly_event_chosen_today' = FALSE
    /\ today_npcs' = <<>>
    /\ npc_interaction_message' = <<>>
    /\ npc_active_event' = <<>>
    /\ UNCHANGED harness_vars

----------------------------------------------------------------------------
(* The commands, as XiuxianApp::update dispatches them by phase. *)

NoHarness == pending = <<>> /\ applied = <<>>

\* The bounded model follows a session while its history holds at most
\* `most` entries.
WithinChoices(most) == Len(player'.history) <= most

\* draw_start: the name field
EditName ==
    /\ phase = "Start"
    /\ \E text \in PlayerNames : edit_player_name(text)

\* draw_start: Enter or the start button
StartGame ==
    /\ phase = "Start"
    /\ start_game

\* draw_event_panel: an option button; the position is any u8 within the bound
ChooseWithin(most) ==
    /\ phase \in {"EventDisplay", "WeeklyEventDisplay"}
    /\ \E choice \in 0..MaxChoice : apply_choice(choice)
    /\ WithinChoices(most)

\* A next-day button enabled wherever the event panel is drawn.
AdvanceUntil_in_gameplay(last_day) ==
    /\ phase \in {"EventDisplay", "WeeklyEventDisplay"}
    /\ GameApp_next_day(last_day)

\* draw_event_panel: the next-day button, enabled by can_advance
AdvanceUntil(last_day) ==
    /\ phase = "EventDisplay"
    /\ GameApp_next_day(last_day)

\* draw_promotion: the promote button.  The bounded model follows a
\* promotion decision through at most MaxAttempts failed attempts.
PromoteYesUntil(last_day) ==
    /\ phase = "PromotionConfirm"
    /\ promote_yes(last_day)
    /\ player'.promotion_attempts <= MaxAttempts

\* draw_promotion: the postpone button
PromoteNoUntil(last_day) ==
    /\ phase = "PromotionConfirm"
    /\ promote_no(last_day)

\* draw_game_over: the restart button
Restart ==
    /\ phase = "GameOver"
    /\ restart

\* GameState::trigger_npc_event on the session's GameState, any index
Probe ==
    /\ game_state = "Some"
    /\ \E index \in 0..3 : trigger_npc_event(index)

\* GameState::resolve_active_npc_event on the session's GameState
ResolveWithin(most) ==
    /\ game_state = "Some"
    /\ \E decision \in {"accept", "reject"} : resolve_active_npc_event(decision)
    /\ WithinChoices(most)

----------------------------------------------------------------------------
(* Spec: the application from GameApp::new, the first MaxDay days of every *)
(* session.  No session reaches the promotion requirement in these days,   *)
(* so the promotion commands are part of SpecLate.                         *)

Choose == ChooseWithin(MaxChoices)
Advance == AdvanceUntil(MaxDay)
Resolve == ResolveWithin(MaxChoices)

Init ==
    /\ GameApp_new
    /\ NoHarness

Next ==
    \/ EditName
    \/ StartGame
    \/ Choose
    \/ Advance
    \/ Restart
    \/ Probe
    \/ Resolve

Spec == Init /\ [][Next]_vars

----------------------------------------------------------------------------
(* SpecLate: a session in progress, taken up on the weekly day that ends   *)
(* week ScriptWeeks and followed through the day after, under the commands *)
(* the window of main.rs offers (main.rs never calls the NPC methods).     *)
(* The session got there by this play: on every day but the weekly days    *)
(* the player chose option B (2, 5) of daily event 0, then advanced; every *)
(* check_death left the player alive and no day ended with the promotion   *)
(* requirement met.                                                        *)

\* One day of that play, for a player still alive: the choice, the death
\* check with both rolls missing, the day advance.
script_day(p, day) ==
    IF ~p.is_alive THEN p
    ELSE LET reward == DailyTable[1][2]
             chosen == IF day % 7 = 0 THEN p
                       ELSE add_history(gain_reward(p, reward[1], reward[2]),
                                        <<"daily", 0, 1>>, reward[1], reward[2])
             checked == check_death(chosen, FALSE, FALSE)
         IN  [checked EXCEPT !.days_played = @ + 1]

\* The player at the start of day days + 1 of that play.
scripted_players[days \in 0..(7 * (ScriptWeeks + 1))] ==
    IF days = 0 THEN new_player("Test")
    ELSE script_day(scripted_players[days - 1], days)

scripted_player(days) == scripted_players[days]

ScriptDays == 7 * ScriptWeeks - 1
LateLastDay == ScriptDays + 2
LateChoices == Len(scripted_player(ScriptDays).history) + MaxChoices

ChooseLate == ChooseWithin(LateChoices)
AdvanceLate == AdvanceUntil(LateLastDay)
PromoteYes == PromoteYesUntil(LateLastDay)
PromoteNo == PromoteNoUntil(LateLastDay)

InitLate ==
    /\ phase = "EventDisplay"
    /\ game_state = "Some"
    /\ player_name = "Test"
    /\ result_message = <<>>
    /\ player = scripted_player(ScriptDays)
    /\ current_day = ScriptDays + 1
    /\ current_week = 1 + ((ScriptDays + 1) \div 7)
    /\ \E idx \in DOMAIN DrawnDaily : today_event \in DrawnDaily[idx]
    /\ today_weekly_event \in weekly_after(ScriptDays + 1)
    /\ event_chosen_today = FALSE
    /\ weekly_event_chosen_today = FALSE
    /\ today_npcs \in {take_npcs(ids) : ids \in RosterPrefixes}
    /\ npc_interaction_message = <<>>
    /\ npc_active_event = <<>>
    /\ NoHarness

NextLate ==
    \/ ChooseLate
    \/ AdvanceLate
    \/ PromoteYes
    \/ PromoteNo
    \/ Restart

SpecLate == InitLate /\ [][NextLate]_vars

----------------------------------------------------------------------------
(* SpecSeventh: the session of SpecLate taken up one day earlier, on the   *)
(* day before the weekly day that ends week ScriptWeeks, and followed      *)
(* under the choice and next-day commands into that weekly day, up to the  *)
(* next-day request that ends it.  On the day it is taken up the session   *)
(* presents daily event 0 with its options in the authored order.          *)

SeventhChoices == Len(scripted_player(ScriptDays - 1).history) + WeekChoices

ChooseSeventh == ChooseWithin(SeventhChoices)
AdvanceSeventh == AdvanceUntil(ScriptDays + 1)

InitSeventh ==
    /\ phase = "EventDisplay"
    /\ game_state = "Some"
    /\ player_name = "Test"
    /\ result_message = <<>>
    /\ player = scripted_player(ScriptDays - 1)
    /\ current_day = ScriptDays
    /\ current_week = 1 + (ScriptDays \div 7)
    /\ today_event = new_shuffled(0, DailyTable[1][1], DailyTable[1][2], DailyTable[1][3],
                                  <<1, 2, 3>>)
    /\ today_weekly_event \in weekly_after(ScriptDays)
    /\ event_chosen_today = FALSE
    /\ weekly_event_chosen_today = FALSE
    /\ today_npcs \in {take_npcs(ids) : ids \in RosterPrefixes}
    /\ npc_interaction_message = <<>>
    /\ npc_active_event = <<>>
    /\ NoHarness

NextSeventh ==
    \/ ChooseSeventh
    \/ AdvanceSeventh

SpecSeventh == InitSeventh /\ [][NextSeventh]_vars

(* SpecNpc: the GameState of a session just started, under every sequence  *)
(* of trigger_npc_event, resolve_active_npc_event and GameState::next_day  *)
(* calls.                                                                  *)

\* GameState::next_day called on the session's GameState
NextDayCall ==
    /\ game_state = "Some"
    /\ NextDayDraws(player, MaxDay)
    /\ UNCHANGED <<app_vars, harness_vars>>

\* The state start_game leaves: GameState::new under every outcome of its draws.
InitNpc ==
    /\ phase = "EventDisplay"
    /\ game_state = "Some"
    /\ player_name = "Test"
    /\ result_message = <<>>
    /\ player = new_player("Test")
    /\ current_day = 1
    /\ current_week = 1
    /\ \E idx \in DOMAIN DrawnDaily : today_event \in DrawnDaily[idx]
    /\ today_weekly_event = <<>>
    /\ event_chosen_today = FALSE
    /\ weekly_event_chosen_today = FALSE
    /\ today_npcs \in {take_npcs(ids) : ids \in RosterPrefixes}
    /\ npc_interaction_message = <<>>
    /\ npc_active_event = <<>>
    /\ NoHarness

NextNpc ==
    \/ Probe
    \/ Resolve
    \/ NextDayCall

SpecNpc == InitNpc /\ [][NextNpc]_vars

----------------------------------------------------------------------------
(* SpecWeek: the GameState of a session just started, under every sequence *)
(* of GameState::next_day and trigger_npc_event calls, up to day           *)
(* MaxWeekDay.                                                             *)

\* GameState::next_day called on the session's GameState
WeekDayCall ==
    /\ game_state = "Some"
    /\ NextDayDraws(player, MaxWeekDay)
    /\ UNCHANGED <<app_vars, harness_vars>>

NextWeek ==
    \/ Probe
    \/ WeekDayCall

SpecWeek == InitNpc /\ [][NextWeek]_vars

----------------------------------------------------------------------------
(* SpecDay: the day before MaxWeekDay (a weekly day) of a session whose    *)
(* player has pressed the next-day button on every day before without a    *)
(* choice, every check_death leaving the player alive.  The day is         *)
(* followed under the choice and next-day commands of the window and the   *)
(* two NPC commands, through day MaxWeekDay.                               *)

\* The state MaxWeekDay - 2 such day advances leave a session just started in.
InitDay ==
    /\ phase = "EventDisplay"
    /\ game_state = "Some"
    /\ player_name = "Test"
    /\ result_message = <<>>
    /\ player = [new_player("Test") EXCEPT !.days_played = MaxWeekDay - 2,
                                           !.zero_pressure_streak = MaxWeekDay - 2]
    /\ current_day = MaxWeekDay - 1
    /\ current_week = 1 + ((MaxWeekDay - 1) \div 7)
    /\ \E idx \in DOMAIN DrawnDaily : today_event \in DrawnDaily[idx]
    /\ today_weekly_event \in weekly_after(MaxWeekDay - 1)
    /\ event_chosen_today = FALSE
    /\ weekly_event_chosen_today = FALSE
    /\ today_npcs \in {take_npcs(ids) : ids \in RosterPrefixes}
    /\ npc_interaction_message = <<>>
    /\ npc_active_event = <<>>
    /\ NoHarness

AdvanceDay == AdvanceUntil(MaxWeekDay)

NextOfDay ==
    \/ Choose
    \/ Probe
    \/ Resolve
    \/ AdvanceDay

SpecDay == InitDay /\ [][NextOfDay]_vars

----------------------------------------------------------------------------
(* SpecOver: the last day of a session.  The session is taken up on the    *)
(* weekly day that ends week ScriptWeeks, after one of these plays: on the *)
(* first `chosen` days that were not weekly days the player chose the same *)
(* option of the same daily event and advanced, on the other days the      *)
(* player advanced without a choice; every check_death left the player     *)
(* alive.  The session is followed through the choices of the day and the  *)
(* next-day request that ends it.                                          *)

\* The plays: option B (2, 5) of daily event 0 or option B (0, 6) of daily
\* event 21, chosen on 0 to ScriptDays days.
OverPlays ==
    [id : {0, 21}, option : {1}, chosen : 0 .. (7 * (ScriptWeeks + 1))]

\* One day of a play, for a player still alive: the choice if one is made,
\* the death check with both rolls missing, the day advance.
over_day(p, day, play) ==
    IF ~p.is_alive THEN p
    ELSE LET reward == DailyTable[play.id + 1][play.option + 1]
             chosen == IF day % 7 # 0 /\ Len(p.history) < play.chosen
                       THEN add_history(gain_reward(p, reward[1], reward[2]),
                                        <<"daily", play.id, play.option>>,
                                        reward[1], reward[2])
                       ELSE p
             checked == check_death(chosen, FALSE, FALSE)
         IN  [checked EXCEPT !.days_played = @ + 1]

\* The player at the start of day days + 1 of a play.
over_players[days \in 0 .. (7 * (ScriptWeeks + 1)), play \in OverPlays] ==
    IF days = 0 THEN new_player("Test")
    ELSE over_day(over_players[days - 1, play], days, play)

OverChoices == ScriptDays + MaxChoices

ChooseOver == ChooseWithin(OverChoices)
AdvanceOver == AdvanceUntil(ScriptDays + 1)

InitOver ==
    /\ phase = "EventDisplay"
    /\ game_state = "Some"
    /\ player_name = "Test"
    /\ result_message = <<>>
    /\ \E play \in OverPlays :
            /\ play.chosen <= ScriptDays
            /\ player = over_players[ScriptDays, play]
    /\ current_day = ScriptDays + 1
    /\ current_week = 1 + ((ScriptDays + 1) \div 7)
    /\ \E idx \in DOMAIN DrawnDaily : today_event \in DrawnDaily[idx]
    /\ today_weekly_event \in weekly_after(ScriptDays + 1)
    /\ event_chosen_today = FALSE
    /\ weekly_event_chosen_today = FALSE
    /\ today_npcs \in {take_npcs(ids) : ids \in RosterPrefixes}
    /\ npc_interaction_message = <<>>
    /\ npc_active_event = <<>>
    /\ NoHarness

NextOver ==
    \/ ChooseOver
    \/ AdvanceOver
    \/ Restart

SpecOver == InitOver /\ [][NextOver]_vars

----------------------------------------------------------------------------
(* SpecZero: a session at pressure 0, taken up on the weekly day that ends *)
(* week ScriptWeeks and followed through the day after under the commands  *)
(* of the window.  The session got there by one of these plays: on the     *)
(* first 16 or 17 days that were not weekly days the player chose option C *)
(* (3, -3) of daily event 0, on the other days none; every check_death     *)
(* left the player alive and every promotion offered was declined.  The    *)
(* skills are 48 or 51, around the first promotion requirement, and every  *)
(* check_death so far has counted the zero-pressure streak on.             *)

ZeroPlays == [id : {0}, option : {2}, chosen : {16, 17}]

\* The player at the start of day days + 1 of such a play.
zero_players[days \in 0 .. (7 * (ScriptWeeks + 1)), play \in ZeroPlays] ==
    IF days = 0 THEN new_player("Test")
    ELSE over_day(zero_players[days - 1, play], days, play)

ZeroChoices == 17 + MaxChoices

ChooseZero == ChooseWithin(ZeroChoices)

InitZero ==
    /\ phase = "EventDisplay"
    /\ game_state = "Some"
    /\ player_name = "Test"
    /\ result_message = <<>>
    /\ \E play \in ZeroPlays : player = zero_players[ScriptDays, play]
    /\ current_day = ScriptDays + 1
    /\ current_week = 1 + ((ScriptDays + 1) \div 7)
    /\ \E idx \in DOMAIN DrawnDaily : today_event \in DrawnDaily[idx]
    /\ today_weekly_event \in weekly_after(ScriptDays + 1)
    /\ event_chosen_today = FALSE
    /\ weekly_event_chosen_today = FALSE
    /\ today_npcs \in {take_npcs(ids) : ids \in RosterPrefixes}
    /\ npc_interaction_message = <<>>
    /\ npc_active_event = <<>>
    /\ NoHarness

NextZero ==
    \/ ChooseZero
    \/ AdvanceLate
    \/ PromoteYes
    \/ PromoteNo
    \/ Restart

SpecZero == InitZero /\ [][NextZero]_vars

----------------------------------------------------------------------------
(* SpecPressure: two sessions taken up on the weekly day that ends week    *)
(* ScriptWeeks, the session of SpecLate at pressure 90 and the session     *)
(* that chose no option on any day, at pressure 0 with an empty history.   *)
(* They are followed through that day under the commands of the window and *)
(* both NPC calls of the library: the daily and the weekly choice, NPC     *)
(* probes and resolutions in every phase, the next-day request up to the   *)
(* death or the promotion prompt it ends the day with, and the attempts    *)
(* made at the prompt.  From pressure 90 the rewards of the day pass 100,  *)
(* from pressure 0 they pass below 0.  The daily event of the day is event *)
(* 0 in the order it was authored in, the weekly event any draw in any     *)
(* order.                                                                  *)

\* The play that made no choice on any day.
IdlePlay == [id |-> 0, option |-> 1, chosen |-> 0]

\* One entry more than in SpecLate: an NPC resolution can follow both choices
\* of the day.
PressureChoices == LateChoices + 1

ChoosePressure == ChooseWithin(PressureChoices)
ResolvePressure == ResolveWithin(PressureChoices)
AdvancePressure == AdvanceUntil(ScriptDays + 1)
AttemptPressure == PromoteYesUntil(ScriptDays + 1)

InitPressure ==
    /\ phase = "EventDisplay"
    /\ game_state = "Some"
    /\ player_name = "Test"
    /\ result_message = <<>>
    /\ player \in {scripted_player(ScriptDays), over_players[ScriptDays, IdlePlay]}
    /\ current_day = ScriptDays + 1
    /\ current_week = 1 + ((ScriptDays + 1) \div 7)
    /\ today_event = new_shuffled(0, DailyTable[1][1], DailyTable[1][2], DailyTable[1][3],
                                  <<1, 2, 3>>)
    /\ today_weekly_event \in weekly_after(ScriptDays + 1)
    /\ event_chosen_today = FALSE
    /\ weekly_event_chosen_today = FALSE
    /\ today_npcs \in {take_npcs(ids) : ids \in RosterPrefixes}
    /\ npc_interaction_message = <<>>
    /\ npc_active_event = <<>>
    /\ NoHarness

NextPressure ==
    \/ ChoosePressure
    \/ Probe
    \/ ResolvePressure
    \/ AdvancePressure
    \/ AttemptPressure
    \/ Restart

SpecPressure == InitPressure /\ [][NextPressure]_vars

----------------------------------------------------------------------------
(* SpecRestart: the sessions of SpecOver, ended by a death, discarded by   *)
(* the restart button and followed by new sessions.  The choices of a      *)
(* session are followed on day ScriptDays + 1, the next-day requests on    *)
(* every day up to it.                                                     *)

ChooseLastDay ==
    /\ current_day = ScriptDays + 1
    /\ ChooseWithin(OverChoices)

NextRestart ==
    \/ ChooseLastDay
    \/ AdvanceOver
    \/ Restart
    \/ EditName
    \/ StartGame

SpecRestart == InitOver /\ [][NextRestart]_vars

----------------------------------------------------------------------------
(* SpecTerminal: the weekly day SpecLate takes a session up on, followed   *)
(* through its choices to the next-day request that ends it, and then      *)
(* through every NPC call made to the session a death has ended, up to the *)
(* restart.  While the session runs the bounded model follows one NPC      *)
(* probe, so that a prompt can be up when the player dies.                 *)

AdvanceTerminal == AdvanceUntil(ScriptDays + 1)

\* GameState::trigger_npc_event: the first probe of the day, and every probe
\* once the session has ended
ProbeTerminal ==
    /\ phase = "GameOver" \/ npc_interaction_message = <<>>
    /\ Probe

\* GameState::resolve_active_npc_event once the session has ended
ResolveTerminal ==
    /\ phase = "GameOver"
    /\ ResolveWithin(LateChoices)

NextTerminal ==
    \/ ChooseLate
    \/ AdvanceTerminal
    \/ ProbeTerminal
    \/ ResolveTerminal
    \/ Restart

SpecTerminal == InitLate /\ [][NextTerminal]_vars

----------------------------------------------------------------------------
(* SpecRoster: day 1 of a session, with today's NPCs drawn from the first  *)
(* RosterDraw members of the roster, under every sequence of               *)
(* trigger_npc_event, resolve_active_npc_event and check_death calls.      *)
(* Today's daily event plays no part in these calls: the session followed  *)
(* has drawn daily event 0 with its options in the authored order.         *)

\* The state GameState::new leaves under these outcomes of its draws.
InitRoster ==
    /\ phase = "EventDisplay"
    /\ game_state = "Some"
    /\ player_name = "Test"
    /\ result_message = <<>>
    /\ player = new_player("Test")
    /\ current_day = 1
    /\ current_week = 1
    /\ today_event = new_shuffled(0, DailyTable[1][1], DailyTable[1][2], DailyTable[1][3],
                                  <<1, 2, 3>>)
    /\ today_weekly_event = <<>>
    /\ event_chosen_today = FALSE
    /\ weekly_event_chosen_today = FALSE
    /\ today_npcs \in {take_npcs(ids) : ids \in RosterPrefixesWithin(RosterDraw)}
    /\ npc_interaction_message = <<>>
    /\ npc_active_event = <<>>
    /\ NoHarness

ResolveRoster == ResolveWithin(RosterChoices)

\* PlayerState::check_death called on the session's player while alive; the
\* bounded model follows a zero-pressure streak up to RosterStreak.
RosterCheckDeath ==
    /\ game_state = "Some"
    /\ player.is_alive
    /\ next_streak(player) <= RosterStreak
    /\ \E zero_roll \in ZeroRolls(player), death_roll \in DeathRolls(player) :
            player' = check_death(player, zero_roll, death_roll)
    /\ UNCHANGED <<app_vars, harness_vars, current_day, current_week, today_event,
                   today_weekly_event, event_chosen_today, weekly_event_chosen_today,
                   today_npcs, npc_interaction_message, npc_active_event>>

NextRoster ==
    \/ Probe
    \/ ResolveRoster
    \/ RosterCheckDeath

SpecRoster == InitRoster /\ [][NextRoster]_vars

----------------------------------------------------------------------------
(* SpecSubset: the day before SubsetDay of a session in which              *)
(* GameState::next_day has been called on every day before and no other    *)
(* method; with SubsetDay = 2 that is the state GameState::new leaves.     *)
(* Today's NPCs are drawn from the first RosterDraw members of the roster. *)
(* The day is followed under trigger_npc_event, the first                  *)
(* resolve_active_npc_event of the day and GameState::next_day.  The       *)
(* session followed has drawn daily event 0 with its options in the        *)
(* authored order for the day it is taken up on.                           *)

InitSubset ==
    /\ phase = "EventDisplay"
    /\ game_state = "Some"
    /\ player_name = "Test"
    /\ result_message = <<>>
    /\ player = [new_player("Test") EXCEPT !.days_played = SubsetDay - 2]
    /\ current_day = SubsetDay - 1
    /\ current_week = 1 + ((SubsetDay - 1) \div 7)
    /\ today_event = new_shuffled(0, DailyTable[1][1], DailyTable[1][2], DailyTable[1][3],
                                  <<1, 2, 3>>)
    /\ today_weekly_event \in weekly_after(SubsetDay - 1)
    /\ event_chosen_today = FALSE
    /\ weekly_event_chosen_today = FALSE
    /\ today_npcs \in {take_npcs(ids) : ids \in RosterPrefixesWithin(RosterDraw)}
    /\ npc_interaction_message = <<>>
    /\ npc_active_event = <<>>
    /\ NoHarness

\* resolve_active_npc_event while no NPC of today's subset is interacted with
ResolveFirst ==
    /\ game_state = "Some"
    /\ \A i \in DOMAIN today_npcs : ~today_npcs[i].interacted
    /\ \E decision \in {"accept", "reject"} : resolve_active_npc_event(decision)

\* GameState::next_day called on the session's GameState
SubsetDayCall ==
    /\ game_state = "Some"
    /\ NextDayDrawsFrom(player, SubsetDay, RosterPrefixesWithin(RosterDraw))
    /\ UNCHANGED <<app_vars, harness_vars>>

NextSubset ==
    \/ Probe
    \/ ResolveFirst
    \/ SubsetDayCall

SpecSubset == InitSubset /\ [][NextSubset]_vars

----------------------------------------------------------------------------
(* Properties of the application, checked under the session               *)
(* specifications.                                                         *)

\* The history lines of the day `day` that record a resolution of NPC `id`.
NpcLines(day, id) ==
    {i \in DOMAIN player.history :
        /\ player.history[i].day = day
        /\ player.history[i].record[1] = "npc"
        /\ player.history[i].record[2] = id}

\* C1: between two next_day calls each NPC of today's subset rewards the
\* player at most once.  No day of the history holds two resolutions of the
\* same NPC, and an NPC of today's subset has its one resolution of today in
\* the history exactly when its interacted flag is set, so a resolve that
\* finds the flag set has added nothing.
C1_NpcRewardsOncePerDay ==
    game_state = "Some" =>
        /\ \A id \in 0 .. (Len(NpcTable) - 1), day \in 1 .. current_day :
                Cardinality(NpcLines(day, id)) <= 1
        /\ \A i \in DOMAIN today_npcs :
                today_npcs[i].interacted <=>
                    Cardinality(NpcLines(player.days_played + 1, today_npcs[i].id)) = 1

\* An NPC was resolved today and then probed again: the probe was refused
\* and left no prompt to resolve.
C1_Witness ==
    /\ game_state = "Some"
    /\ \E i \in DOMAIN today_npcs :
        /\ today_npcs[i].interacted
        /\ npc_interaction_message = <<"already_handled", today_npcs[i].id>>
        /\ npc_active_event = <<>>
        /\ Cardinality(NpcLines(player.days_played + 1, today_npcs[i].id)) = 1

\* A daily choice request: apply_choice in phase EventDisplay, any position.
DailyChoiceRequest ==
    /\ game_state = "Some"
    /\ phase = "EventDisplay"
    /\ \E choice \in 0 .. MaxChoice : apply_choice(choice)

\* The step appends a line of the given kind to the history.
Records(kind) ==
    /\ player'.history # player.history
    /\ player'.history # <<>>
    /\ player'.history[Len(player'.history)].record[1] = kind

\* C2: a daily choice is applied at most once per day.  A daily choice
\* request made while event_chosen_today is set leaves the player record and
\* both guards as they are and sets the advisory message; a daily choice is
\* recorded only by a step that finds the guard clear and sets it; and within
\* a session the guard is cleared only by a step that advances current_day.
C2_DailyChoiceOncePerDay ==
    [][ /\ (event_chosen_today /\ DailyChoiceRequest) =>
                /\ player' = player
                /\ event_chosen_today'
                /\ weekly_event_chosen_today' = weekly_event_chosen_today
                /\ result_message' = <<"already_chosen_today">>
        /\ (game_state = "Some" /\ game_state' = "Some" /\ Records("daily")) =>
                (~event_chosen_today /\ event_chosen_today')
        /\ (game_state = "Some" /\ game_state' = "Some"
                /\ event_chosen_today /\ ~event_chosen_today') =>
                current_day' = current_day + 1
      ]_vars

\* On a weekly day, after the daily and the weekly choice, one more daily
\* choice request was answered with the advisory.
C2_Witness ==
    /\ game_state = "Some"
    /\ phase = "EventDisplay"
    /\ event_chosen_today
    /\ weekly_event_chosen_today
    /\ result_message = <<"already_chosen_today">>

\* A choice request with a display position outside {1, 2, 3}.
OutOfRangeRequest ==
    /\ game_state = "Some"
    /\ phase \in {"EventDisplay", "WeeklyEventDisplay"}
    /\ \E choice \in (0 .. MaxChoice) \ {1, 2, 3} : apply_choice(choice)

\* C3: a daily or weekly choice request with a position outside {1, 2, 3},
\* position 0 included, is ignored: the player record, the two chosen-today
\* guards, the weekly event slot and the phase stay as they are.
C3_OutOfRangeIgnored ==
    [][ OutOfRangeRequest =>
            UNCHANGED <<player, event_chosen_today, weekly_event_chosen_today,
                        today_weekly_event, phase>>
      ]_vars

\* The pressure change a history entry records.
recorded_pressure_change(line) ==
    IF line.pressure_text[1] = "+" THEN line.pressure_text[2] ELSE -line.pressure_text[2]

\* C4: the player's pressure lies in 0..100 in every state of a session, and
\* every change of it is clamped to that range: a step that applies an option
\* of the daily event, of the weekly event or of an NPC, and so adds the entry
\* of that option to the history, leaves the pressure at the sum of the
\* pressure before and the change the entry records when the sum lies in
\* 0..100, at 0 when the sum is below 0 and at 100 when it is above 100; every
\* other step of the session leaves the pressure as it was.
C4_PressureInRange ==
    /\ [](game_state = "Some" => player.pressure \in 0 .. 100)
    /\ [][ (game_state = "Some" /\ game_state' = "Some") =>
                IF player'.history # player.history
                THEN /\ Len(player'.history) = Len(player.history) + 1
                     /\ LET line == player'.history[Len(player'.history)]
                            sum == player.pressure + recorded_pressure_change(line)
                        IN  player'.pressure =
                                IF sum < 0 THEN 0 ELSE IF sum > 100 THEN 100 ELSE sum
                ELSE player'.pressure = player.pressure
          ]_vars

\* The weekly reward of +15 pressure has taken the pressure to 100, and the
\* reject option of an NPC, +2 pressure, applied at 100 has left it there.
C4_Witness ==
    /\ game_state = "Some"
    /\ player.pressure = 100
    /\ Len(player.history) >= 2
    /\ player.history[Len(player.history)].record[1] = "npc"
    /\ player.history[Len(player.history)].pressure_text = <<"+", 2>>
    /\ player.history[Len(player.history) - 1].record[1] = "weekly"
    /\ player.history[Len(player.history) - 1].pressure_text = <<"+", 15>>

\* C6: within a session experience never decreases, and so the realm derived
\* from it never decreases, whatever the step does to the skills.
C6_ExperienceNeverDecreases ==
    [][ (game_state = "Some" /\ game_state' = "Some") =>
            /\ u32_le(player.experience, player'.experience)
            /\ get_realm(player) <= get_realm(player')
      ]_vars

\* A promotion attempt has failed and halved the skills of a player whose
\* experience had carried them into the second realm.
C6_Witness ==
    /\ game_state = "Some"
    /\ player.promotion_attempts >= 1
    /\ get_realm(player) = 2
    /\ player.skills < skill_requirement(1)

\* The presented options of an event are its three authored options in some
\* order: each original_index once, each with the tuple authored for it.
Presents(event, table) ==
    LET options == event.shuffled_options
    IN  /\ Len(options) = 3
        /\ \A k \in 0 .. 2 :
                Cardinality({i \in 1 .. 3 : options[i].original_index = k}) = 1
        /\ \A i \in 1 .. 3 :
                options[i].value = table[event.id + 1][options[i].original_index + 1]

\* C7: in every state of a session today's daily event, and today's weekly
\* event when there is one, presents a permutation of its authored options.
C7_OptionsArePermutation ==
    game_state = "Some" =>
        /\ Presents(today_event, DailyTable)
        /\ today_weekly_event # <<>> => Presents(today_weekly_event[1], WeeklyTable)

\* On a weekly day the daily choice is made and the weekly event is up; both
\* events are presented in an order other than A, B, C.
C7_Witness ==
    /\ game_state = "Some"
    /\ phase = "WeeklyEventDisplay"
    /\ today_weekly_event # <<>>
    /\ today_event.shuffled_options[1].original_index = 2
    /\ today_weekly_event[1].shuffled_options[1].original_index = 1

\* The step is a promote request that succeeded.
PromotionSucceeds ==
    /\ game_state = "Some"
    /\ phase = "PromotionConfirm"
    /\ player'.realm_level = player.realm_level + 1

\* C18: a successful promotion reports the name of the new tier, the one whose
\* rank is the realm_level just reached.
C18_PromotionNamesNewTier ==
    [][ PromotionSucceeds => result_message' = <<"promoted", player'.realm_level>>
      ]_vars

----------------------------------------------------------------------------
(* Properties of GameState::next_day, checked under SpecWeek and SpecDay. *)

\* The step calls GameState::next_day: the session goes on to another day.
NextDayStep ==
    /\ game_state = "Some"
    /\ game_state' = "Some"
    /\ current_day' # current_day

\* C19: right after every next_day call a weekly event is present exactly
\* when the new day is divisible by 7, and the week counter is one more than
\* before in exactly that case and as before otherwise: from day 6 the call
\* leads to day 7 in week 2 with a weekly event, from day 7 to day 8 with none.
C19_WeeklyEventEverySeventhDay ==
    [][ NextDayStep =>
            /\ (today_weekly_event' # <<>>) <=> (current_day' % 7 = 0)
            /\ current_day' % 7 = 0 => current_week' = current_week + 1
            /\ current_day' % 7 # 0 => current_week' = current_week
            /\ current_day = 6 =>
                    (current_day' = 7 /\ current_week' = 2 /\ today_weekly_event' # <<>>)
            /\ current_day = 7 =>
                    (current_day' = 8 /\ today_weekly_event' = <<>>)
      ]_vars

\* next_day has led from day 7 to day 8: the session is in week 2 and the
\* weekly event slot is empty again.
C19_Witness ==
    /\ game_state = "Some"
    /\ current_day = 8
    /\ current_week = 2
    /\ today_weekly_event = <<>>
    /\ player.days_played = 7

\* A subset as refresh_today_npcs draws it: one to three distinct members of
\* the roster, as authored, none interacted with.
FreshSubset(npcs) ==
    /\ Len(npcs) \in 1 .. 3
    /\ \A i \in DOMAIN npcs :
            /\ npcs[i].id \in 0 .. (Len(NpcTable) - 1)
            /\ ~npcs[i].interacted
            /\ npcs[i].accept_option.reward = NpcTable[npcs[i].id + 1][1]
            /\ npcs[i].reject_option.reward = NpcTable[npcs[i].id + 1][2]
    /\ \A i, j \in DOMAIN npcs : npcs[i].id = npcs[j].id => i = j

\* C20: every next_day call adds exactly 1 to the day counter and to
\* days_played, clears the guard of the daily and of the weekly choice,
\* replaces today's NPCs by a fresh subset with no interacted flag set, leaves
\* no active NPC prompt, and leaves the player's skills, pressure, experience,
\* realm_level, promotion_attempts, is_alive and history as they were.
C20_NextDayFrame ==
    [][ NextDayStep =>
            /\ current_day' = current_day + 1
            /\ player'.days_played = player.days_played + 1
            /\ ~event_chosen_today'
            /\ ~weekly_event_chosen_today'
            /\ FreshSubset(today_npcs')
            /\ npc_active_event' = <<>>
            /\ player'.skills = player.skills
            /\ player'.pressure = player.pressure
            /\ player'.experience = player.experience
            /\ player'.realm_level = player.realm_level
            /\ player'.promotion_attempts = player.promotion_attempts
            /\ player'.is_alive = player.is_alive
            /\ player'.history = player.history
      ]_vars

\* next_day was called on a weekly day after the daily and the weekly choice
\* had been made: both guards are clear again and the two lines of the day
\* before are the whole history.
C20_Witness ==
    /\ game_state = "Some"
    /\ current_day = MaxWeekDay
    /\ player.days_played = MaxWeekDay - 1
    /\ ~event_chosen_today
    /\ ~weekly_event_chosen_today
    /\ npc_active_event = <<>>
    /\ Len(player.history) = 2
    /\ player.history[1].day = current_day - 1
    /\ player.history[1].record[1] = "daily"
    /\ player.history[2].day = current_day - 1
    /\ player.history[2].record[1] = "weekly"

----------------------------------------------------------------------------
(* Properties of the game-over state, checked under SpecOver. *)

\* The message of the pressure band that holds the pressure, if one does.
BandMessage(pressure) ==
    IF pressure \in 20 .. 29 THEN "pressure_20_29"
    ELSE IF pressure \in 30 .. 49 THEN "pressure_30_49"
    ELSE IF pressure \in 50 .. 69 THEN "pressure_50_69"
    ELSE IF pressure \in 70 .. 100 THEN "pressure_70_100"
    ELSE "none"

\* C12: in every game-over state the death message shown is the one of the
\* branch of check_death that ended the session: the zero-pressure message
\* exactly when died_from_zero_pressure is set (and then the pressure is 0),
\* otherwise the dismissal message exactly when the skills are below 0,
\* otherwise the message of the band 20..29, 30..49, 50..69 or 70..100 that
\* holds the pressure; the fallback message is never shown.
C12_DeathMessageMatchesCause ==
    phase = "GameOver" =>
        LET message == result_message[2]
        IN  /\ ~player.is_alive
            /\ (message = "zero_pressure") <=> player.died_from_zero_pressure
            /\ player.died_from_zero_pressure => player.pressure = 0
            /\ ~player.died_from_zero_pressure =>
                    ((message = "fired") <=> player.skills < 0)
            /\ (~player.died_from_zero_pressure /\ player.skills >= 0) =>
                    /\ player.pressure >= 20
                    /\ message = BandMessage(player.pressure)
            /\ message # "game_over"

\* A session ended by dismissal at a pressure inside a band: the message is
\* the dismissal message, not the one of the band.
C12_Witness ==
    /\ phase = "GameOver"
    /\ player.skills < 0
    /\ player.pressure \in 50 .. 69
    /\ ~player.died_from_zero_pressure
    /\ result_message[2] = "fired"

----------------------------------------------------------------------------
(* Properties of the choices, checked under SpecLate. *)

\* The history lines of the day `day` that record a weekly choice.
WeeklyLines(day) ==
    {i \in DOMAIN player.history :
        player.history[i].day = day /\ player.history[i].record[1] = "weekly"}

\* The step applies the reward tuple `value` to the player and appends one
\* history line with the record given (the sums stay far from the ends of
\* i32 and u32 in the sessions followed).
Rewards(value, record) ==
    /\ player'.skills = player.skills + value[1]
    /\ player'.pressure = clamp(player.pressure + value[2], 0, 100)
    /\ player'.experience =
            u32(player.experience.lo + (IF value[1] > 0 THEN value[1] ELSE 0))
    /\ Len(player'.history) = Len(player.history) + 1
    /\ SubSeq(player'.history, 1, Len(player.history)) = player.history
    /\ player'.history[Len(player'.history)] =
            [day |-> current_day, record |-> record,
             skill_text |-> IF value[1] >= 0 THEN <<"+", value[1]>> ELSE <<"-", -value[1]>>,
             pressure_text |-> IF value[2] >= 0 THEN <<"+", value[2]>> ELSE <<"-", -value[2]>>]

\* C22: a weekly choice is applied only when a weekly event is present and
\* weekly_event_chosen_today is clear.  A request at display position 1, 2 or
\* 3 then grants the reward of the option presented at that position, appends
\* one history line, sets the guard and empties the weekly event slot; a
\* request that finds the guard set or the slot empty changes none of them.
\* So the history holds at most one weekly line per day, and none for a day
\* whose number is not divisible by 7.
C22_WeeklyChoiceGuarded ==
    /\ [](game_state = "Some" =>
            \A day \in 1 .. current_day :
                /\ Cardinality(WeeklyLines(day)) <= 1
                /\ day % 7 # 0 => WeeklyLines(day) = {})
    /\ [][ /\ \A choice \in 1 .. 3 :
                (game_state = "Some" /\ phase = "WeeklyEventDisplay" /\ apply_choice(choice)) =>
                    IF today_weekly_event # <<>> /\ ~weekly_event_chosen_today
                    THEN LET weekly == today_weekly_event[1]
                             option == weekly.shuffled_options[choice]
                         IN  /\ option.value = WeeklyTable[weekly.id + 1][option.original_index + 1]
                             /\ Rewards(option.value, <<"weekly", weekly.id, option.original_index>>)
                             /\ weekly_event_chosen_today'
                             /\ today_weekly_event' = <<>>
                    ELSE UNCHANGED <<player, today_weekly_event, weekly_event_chosen_today>>
           /\ (game_state = "Some" /\ game_state' = "Some" /\ Records("weekly")) =>
                /\ today_weekly_event # <<>>
                /\ ~weekly_event_chosen_today
                /\ current_day % 7 = 0
         ]_vars

\* The weekly choice of a weekly day has been applied: the guard is set, the
\* slot is empty and the last history line is the weekly line of the day.
C22_Witness ==
    /\ game_state = "Some"
    /\ phase = "EventDisplay"
    /\ current_day % 7 = 0
    /\ weekly_event_chosen_today
    /\ today_weekly_event = <<>>
    /\ result_message[1] = "story_weekly_done"
    /\ WeeklyLines(current_day) = {Len(player.history)}

\* C30: a daily choice at display position 1, 2 or 3, made while
\* event_chosen_today is clear, applies the reward tuple of the option
\* presented at that position (the element of shuffled_options at the
\* position, whatever slot it was authored in), appends one history line for
\* that option and sets event_chosen_today.
C30_DailyChoiceByPosition ==
    [][ \A choice \in 1 .. 3 :
            ( /\ game_state = "Some"
              /\ phase = "EventDisplay"
              /\ ~event_chosen_today
              /\ apply_choice(choice) ) =>
                LET option == today_event.shuffled_options[choice]
                IN  /\ option.value =
                            DailyTable[today_event.id + 1][option.original_index + 1]
                    /\ Rewards(option.value,
                               <<"daily", today_event.id, option.original_index>>)
                    /\ event_chosen_today'
      ]_vars

\* The daily choice of the day was the option authored in slot C, presented
\* at a position other than 3: the last history line carries its tuple.
C30_Witness ==
    /\ game_state = "Some"
    /\ event_chosen_today
    /\ today_event.shuffled_options[3].original_index # 2
    /\ player.history # <<>>
    /\ LET line == player.history[Len(player.history)]
           value == DailyTable[today_event.id + 1][3]
       IN  /\ line.day = current_day
           /\ line.record = <<"daily", today_event.id, 2>>
           /\ line.skill_text = <<"+", value[1]>>
           /\ line.pressure_text = <<"-", -value[2]>>

\* C33: the weekly-event phase comes after the daily choice.  The phase
\* WeeklyEventDisplay is entered only from EventDisplay, by the step that
\* applies the daily choice of a day whose weekly event is present, and every
\* such step enters it.  While the phase is WeeklyEventDisplay the weekly
\* event is present and unanswered, no step advances the day or runs
\* check_death, and the phase is left only for EventDisplay, by a step that
\* applies one of the three options presented for the weekly event.
C33_WeeklyPhaseOrder ==
    /\ [] ( phase = "WeeklyEventDisplay" =>
                /\ game_state = "Some"
                /\ event_chosen_today
                /\ today_weekly_event # <<>>
                /\ ~weekly_event_chosen_today
                /\ current_day % 7 = 0 )
    /\ [][ /\ (phase # "WeeklyEventDisplay" /\ phase' = "WeeklyEventDisplay") =>
                /\ phase = "EventDisplay"
                /\ today_weekly_event # <<>>
                /\ ~event_chosen_today
                /\ event_chosen_today'
                /\ Records("daily")
                /\ current_day' = current_day
           /\ (game_state = "Some" /\ phase = "EventDisplay" /\ Records("daily")) =>
                (phase' = "WeeklyEventDisplay" <=> today_weekly_event # <<>>)
           /\ phase = "WeeklyEventDisplay" =>
                /\ current_day' = current_day
                /\ current_week' = current_week
                /\ player'.days_played = player.days_played
                /\ UNCHANGED <<player.zero_pressure_streak, player.is_alive>>
                /\ phase' \in {"WeeklyEventDisplay", "EventDisplay"}
                /\ phase' = "WeeklyEventDisplay" =>
                        UNCHANGED <<today_weekly_event, event_chosen_today,
                                    weekly_event_chosen_today>>
                /\ phase' = "EventDisplay" =>
                        /\ \E position \in 1 .. 3 :
                                LET weekly == today_weekly_event[1]
                                    option == weekly.shuffled_options[position]
                                IN  Rewards(option.value,
                                            <<"weekly", weekly.id, option.original_index>>)
                        /\ weekly_event_chosen_today'
                        /\ today_weekly_event' = <<>>
         ]_vars

\* The daily choice of a weekly day has been applied and the weekly event
\* is waiting: the phase is WeeklyEventDisplay on the day the session was
\* taken up, and the last history line is the daily line of that day.
C33_Witness ==
    /\ phase = "WeeklyEventDisplay"
    /\ current_day = ScriptDays + 1
    /\ today_weekly_event # <<>>
    /\ player.history # <<>>
    /\ player.history[Len(player.history)].day = current_day
    /\ player.history[Len(player.history)].record[1] = "daily"

\* C36: in every state of a session current_day = days_played + 1, and the
\* history lines carry day numbers from 1 to current_day in the order they
\* were appended; so every step that appends a history line tags it with the
\* day that is current when the choice is made, and leaves that day current.
C36_HistoryTaggedWithCurrentDay ==
    /\ [] ( game_state = "Some" =>
                /\ current_day = player.days_played + 1
                /\ \A k \in DOMAIN player.history :
                        /\ player.history[k].day \in 1 .. current_day
                        /\ k > 1 => player.history[k - 1].day <= player.history[k].day )
    /\ [][ ( /\ game_state = "Some"
             /\ game_state' = "Some"
             /\ player'.history # player.history ) =>
                /\ current_day' = current_day
                /\ player'.days_played = player.days_played
                /\ Len(player'.history) = Len(player.history) + 1
                /\ player'.history[Len(player'.history)].day = current_day
         ]_vars

\* The second day followed has its daily line, tagged with that day, after
\* the lines of earlier days.
C36_Witness ==
    /\ game_state = "Some"
    /\ current_day = LateLastDay
    /\ player.days_played = LateLastDay - 1
    /\ Len(player.history) >= 2
    /\ LET n == Len(player.history)
       IN  /\ player.history[n].day = LateLastDay
           /\ player.history[n].record[1] = "daily"
           /\ player.history[n - 1].day < LateLastDay

----------------------------------------------------------------------------
(* Properties of the next-day request, checked under SpecLate. *)

\* A next-day request: GameApp::next_day in phase EventDisplay.
AdvanceRequest ==
    /\ game_state = "Some"
    /\ phase = "EventDisplay"
    /\ GameApp_next_day(LateLastDay)

\* C28: a next-day request first runs check_death (the zero-pressure streak
\* is counted on or reset, nothing is rewarded) and then decides.  If the
\* player is no longer alive the phase becomes GameOver and the day stays,
\* whether or not the promotion requirement is met; otherwise, if
\* can_promote() holds, the phase becomes PromotionConfirm and the day stays;
\* otherwise next_day runs and the phase is EventDisplay.  The phases GameOver
\* and PromotionConfirm are entered in no other way.
C28_NextDayDecision ==
    [][ /\ AdvanceRequest =>
            /\ player'.zero_pressure_streak =
                    (IF player.pressure = 0 THEN player.zero_pressure_streak + 1 ELSE 0)
            /\ player'.skills = player.skills
            /\ player'.pressure = player.pressure
            /\ player'.history = player.history
            /\ IF ~player'.is_alive
               THEN /\ phase' = "GameOver"
                    /\ current_day' = current_day
                    /\ player'.days_played = player.days_played
               ELSE IF can_promote(player')
               THEN /\ phase' = "PromotionConfirm"
                    /\ current_day' = current_day
                    /\ player'.days_played = player.days_played
               ELSE /\ phase' = "EventDisplay"
                    /\ current_day' = current_day + 1
                    /\ player'.days_played = player.days_played + 1
        /\ (phase # "GameOver" /\ phase' = "GameOver") =>
                (phase = "EventDisplay" /\ player.is_alive /\ ~player'.is_alive)
        /\ (phase # "PromotionConfirm" /\ phase' = "PromotionConfirm") =>
                (phase = "EventDisplay" /\ player'.is_alive /\ can_promote(player'))
      ]_vars

\* A next-day request has ended the session of a player who met the promotion
\* requirement: the death check came first.
C28_Witness ==
    /\ game_state = "Some"
    /\ phase = "GameOver"
    /\ ~player.is_alive
    /\ can_promote(player)
    /\ current_day = ScriptDays + 1

\* The zero-pressure streak one check_death call leaves.
StreakAfterCheck ==
    IF player.pressure = 0 THEN player.zero_pressure_streak + 1 ELSE 0

\* C29: GameState::next_day runs only once the death check and the promotion
\* decision of the day are settled.  Every day advance is made for a player
\* who is alive, either by the next-day request whose check_death has just
\* left the player alive and short of the promotion requirement, or out of
\* PromotionConfirm by a successful attempt or a decline, with no further
\* check_death.  PromotionConfirm is entered by the one check_death of the
\* day, which left the player alive and can_promote() true; the choices of
\* the day and the failed attempts run no check_death and advance no day; and
\* no day advances once the player is not alive.
C29_AdvanceAfterCheckAndDecision ==
    [][ /\ NextDayStep =>
            /\ player.is_alive
            /\ player'.is_alive
            /\ \/ /\ phase = "EventDisplay"
                  /\ player'.zero_pressure_streak = StreakAfterCheck
                  /\ ~can_promote(player')
                  /\ player' = [player EXCEPT !.zero_pressure_streak = StreakAfterCheck,
                                              !.died_from_zero_pressure = FALSE,
                                              !.days_played = @ + 1]
               \/ /\ phase = "PromotionConfirm"
                  /\ \/ player' = [player EXCEPT !.realm_level = @ + 1,
                                                 !.promotion_attempts = 0,
                                                 !.days_played = @ + 1]
                     \/ player' = [player EXCEPT !.days_played = @ + 1]
        /\ (game_state = "Some" /\ phase # "PromotionConfirm" /\ phase' = "PromotionConfirm") =>
                /\ phase = "EventDisplay"
                /\ player'.zero_pressure_streak = StreakAfterCheck
                /\ player'.is_alive
                /\ can_promote(player')
                /\ current_day' = current_day
        /\ (game_state = "Some" /\ phase # "GameOver" /\ phase' = "GameOver") =>
                /\ phase = "EventDisplay"
                /\ player'.zero_pressure_streak = StreakAfterCheck
                /\ current_day' = current_day
        /\ (game_state = "Some" /\ game_state' = "Some" /\ current_day' = current_day
                /\ phase' \notin {"GameOver", "PromotionConfirm"}) =>
                UNCHANGED <<player.zero_pressure_streak, player.is_alive>>
        /\ (phase = "PromotionConfirm" /\ phase' = "PromotionConfirm") =>
                UNCHANGED <<player.zero_pressure_streak, player.is_alive, current_day>>
        /\ (game_state = "Some" /\ ~player.is_alive) => ~NextDayStep
      ]_vars

\* A day advance at pressure 0 out of PromotionConfirm, after the check of
\* the day, a failed attempt and a decline: the streak counts the one check
\* of the day left, days_played the one advance.
C29_Witness ==
    /\ game_state = "Some"
    /\ phase = "EventDisplay"
    /\ current_day = LateLastDay
    /\ player.days_played = ScriptDays + 1
    /\ player.pressure = 0
    /\ player.zero_pressure_streak = ScriptDays + 1
    /\ player.promotion_attempts = 1
    /\ player.realm_level = 1
    /\ player.skills = 26
    /\ player.is_alive

\* C34: every step taken in phase PromotionConfirm is one of three.  A
\* failed attempt halves the skills, counts the attempt and stays in the
\* phase: the day, days_played, the week, today's events with their guards
\* and today's NPC subset are as before.  A successful attempt raises
\* realm_level and a decline changes nothing of the player; both go to
\* EventDisplay and advance the day and days_played by exactly one.  None of
\* the three runs check_death: is_alive, the zero-pressure streak and the
\* cause flag stay as they are.
C34_PromotionPhaseSteps ==
    [][ (game_state = "Some" /\ phase = "PromotionConfirm") =>
            \/ /\ phase' = "PromotionConfirm"
               /\ player' = [player EXCEPT !.skills = @ - div_i32(player.skills, 2),
                                           !.promotion_attempts = @ + 1]
               /\ result_message' =
                        <<"promotion_failed", div_i32(player.skills, 2), "keep_trying">>
               /\ UNCHANGED <<current_day, current_week, today_event, today_weekly_event,
                              event_chosen_today, weekly_event_chosen_today, today_npcs>>
            \/ /\ phase' = "EventDisplay"
               /\ \/ player' = [player EXCEPT !.realm_level = @ + 1,
                                              !.promotion_attempts = 0,
                                              !.days_played = @ + 1]
                  \/ player' = [player EXCEPT !.days_played = @ + 1]
               /\ current_day' = current_day + 1
      ]_vars

\* Two attempts have failed in one promotion decision: the phase is still
\* PromotionConfirm on the day the session was taken up, with the skills
\* halved twice, below the requirement that opened the decision.
C34_Witness ==
    /\ game_state = "Some"
    /\ phase = "PromotionConfirm"
    /\ player.promotion_attempts = 2
    /\ ~can_promote(player)
    /\ current_day = ScriptDays + 1
    /\ player.days_played = ScriptDays
    /\ result_message # <<>>
    /\ result_message[1] = "promotion_failed"

\* C35: realm_level is raised only in a state in which can_promote() holds:
\* every step of a session that raises it starts from a player whose skills
\* are at least the requirement of the realm_level held before the step, also
\* when attempts have failed before in the same promotion decision.
C35_PromotionOnlyWhenQualified ==
    [][ ( /\ game_state = "Some"
          /\ game_state' = "Some"
          /\ player'.realm_level # player.realm_level ) =>
            /\ player'.realm_level = player.realm_level + 1
            /\ can_promote(player)
      ]_vars

----------------------------------------------------------------------------
(* Properties of the calendar, checked under SpecSeventh. *)

\* C37: in every state of a session the week counter is 1 + (current_day
\* div 7), and a weekly event is present only on a day whose number is
\* divisible by 7 and only while weekly_event_chosen_today is clear.
C37_WeeklySlotAndWeekCounter ==
    game_state = "Some" =>
        /\ current_week = 1 + (current_day \div 7)
        /\ today_weekly_event # <<>> =>
                /\ current_day % 7 = 0
                /\ ~weekly_event_chosen_today

\* The weekly choice of the week's last day has been applied on a session
\* that came from the day before: the week counter went up with the day, the
\* slot is empty again and the guard is set.
C37_Witness ==
    /\ game_state = "Some"
    /\ current_day = ScriptDays + 1
    /\ current_week = ScriptWeeks + 1
    /\ today_weekly_event = <<>>
    /\ weekly_event_chosen_today
    /\ Len(player.history) = Len(scripted_player(ScriptDays - 1).history) + 2

----------------------------------------------------------------------------
(* Properties of the NPC calls, checked under SpecRoster. *)

\* C23: a trigger_npc_event call, whatever the index and the state (player
\* alive or not, index inside or outside today's subset, NPC interacted with
\* or not), leaves the player record and every interacted flag of today's
\* NPCs as they are: a step that shows a prompt or the already-handled
\* message changes neither, and a step that changes a flag within a day is a
\* resolve that takes up the pending prompt and records the resolution.
C23_ProbeLeavesRewardState ==
    [][ /\ \A index \in 0 .. 3 :
                (game_state = "Some" /\ trigger_npc_event(index)) =>
                    UNCHANGED <<player, today_npcs>>
        /\ ( /\ game_state = "Some"
             /\ <<npc_interaction_message, npc_active_event>>' #
                    <<npc_interaction_message, npc_active_event>>
             /\ npc_interaction_message' # <<>>
             /\ npc_interaction_message'[1] \in {"prompt", "already_handled"} ) =>
                UNCHANGED <<player, today_npcs>>
        /\ (game_state = "Some" /\ current_day' = current_day /\ today_npcs' # today_npcs) =>
                /\ npc_active_event # <<>>
                /\ npc_active_event' = <<>>
                /\ npc_interaction_message'[1] = "resolved"
                /\ Records("npc")
      ]_vars

\* A probe has put up the prompt of an NPC after another NPC of the subset
\* was resolved: the one flag and the one history line are still there.
C23_Witness ==
    /\ game_state = "Some"
    /\ npc_active_event # <<>>
    /\ npc_interaction_message[1] = "prompt"
    /\ Len(player.history) = 1
    /\ Cardinality({i \in DOMAIN today_npcs : today_npcs[i].interacted}) = 1
    /\ ~today_npcs[npc_active_event[1].npc_index + 1].interacted

\* C24: when the player is not alive, a trigger_npc_event call and a
\* resolve_active_npc_event call set the advisory message and change nothing
\* else: the player record, today's NPCs with their flags and the active NPC
\* prompt, present or absent, are after the call what they were before it.
C24_DeadPlayerCallsChangeNothing ==
    [][ ( /\ game_state = "Some"
          /\ ~player.is_alive
          /\ \/ \E index \in 0 .. 3 : trigger_npc_event(index)
             \/ \E decision \in {"accept", "reject"} : resolve_active_npc_event(decision) ) =>
            /\ npc_interaction_message' = <<"left_company">>
            /\ UNCHANGED <<player, today_npcs, npc_active_event>>
      ]_vars

\* C25: with the player alive and no active NPC prompt, a
\* resolve_active_npc_event call, accept or reject, does nothing: it leaves
\* the player, today's NPCs, the empty prompt slot and the message as they
\* are.  So no NPC call made in such a state applies a reward, appends a
\* history line or changes a flag, and a prompt comes up only with the
\* message of a probe.
C25_ResolveWithoutPrompt ==
    [][ ( /\ game_state = "Some"
          /\ player.is_alive
          /\ npc_active_event = <<>>
          /\ current_day' = current_day ) =>
            /\ \A decision \in {"accept", "reject"} :
                    resolve_active_npc_event(decision) =>
                        UNCHANGED <<player, today_npcs, npc_active_event,
                                    npc_interaction_message>>
            /\ player'.history = player.history
            /\ player'.skills = player.skills
            /\ player'.pressure = player.pressure
            /\ player'.experience = player.experience
            /\ today_npcs' = today_npcs
            /\ npc_active_event' # <<>> => npc_interaction_message'[1] = "prompt"
      ]_vars

\* A state such a call can be made in: the player is alive, one NPC of the
\* subset has just been resolved, another is still open, no prompt is up.
C25_Witness ==
    /\ game_state = "Some"
    /\ player.is_alive
    /\ npc_active_event = <<>>
    /\ npc_interaction_message # <<>>
    /\ npc_interaction_message[1] = "resolved"
    /\ \E i, j \in DOMAIN today_npcs : today_npcs[i].interacted /\ ~today_npcs[j].interacted

\* C26: with the player alive and a prompt up for an NPC not yet interacted
\* with, resolve_active_npc_event sets the interacted flag of that NPC and of
\* no other, applies the reward authored for its accept option on accept and
\* for its reject option on reject, appends one history line and leaves no
\* prompt; the other NPCs of the subset are as before.
C26_ResolveAppliesDecision ==
    [][ \A decision \in {"accept", "reject"} :
            ( /\ game_state = "Some"
              /\ player.is_alive
              /\ npc_active_event # <<>>
              /\ npc_active_event[1].npc_index < Len(today_npcs)
              /\ ~today_npcs[npc_active_event[1].npc_index + 1].interacted
              /\ resolve_active_npc_event(decision) ) =>
                LET i == npc_active_event[1].npc_index + 1
                    npc == today_npcs[i]
                    reward == NpcTable[npc.id + 1][IF decision = "accept" THEN 1 ELSE 2]
                IN  /\ Len(today_npcs') = Len(today_npcs)
                    /\ today_npcs'[i].interacted
                    /\ today_npcs'[i].id = npc.id
                    /\ \A j \in DOMAIN today_npcs : j # i => today_npcs'[j] = today_npcs[j]
                    /\ Rewards(reward, <<"npc", npc.id, decision>>)
                    /\ npc_active_event' = <<>>
      ]_vars

\* The second NPC of a subset of three has been turned down: its flag alone
\* is set, the one history line records the refusal, no prompt is left.
C26_Witness ==
    /\ game_state = "Some"
    /\ Len(today_npcs) = 3
    /\ today_npcs[2].interacted
    /\ ~today_npcs[1].interacted
    /\ ~today_npcs[3].interacted
    /\ npc_active_event = <<>>
    /\ Len(player.history) = 1
    /\ player.history[1].record = <<"npc", today_npcs[2].id, "reject">>
    /\ npc_interaction_message # <<>>
    /\ npc_interaction_message[1] = "resolved"

\* C32: with the player alive, a trigger_npc_event call for an NPC of today's
\* subset that was already interacted with sets the already-handled message
\* of that NPC and leaves no active NPC prompt, also when the prompt of
\* another NPC was up before the call, and changes neither the player nor a
\* flag.  While that message stands no prompt is up, and a resolve call made
\* then, accept or reject, grants nothing: it changes nothing at all.
C32_ProbeOfHandledNpc ==
    /\ [] ( ( /\ game_state = "Some"
              /\ npc_interaction_message # <<>>
              /\ npc_interaction_message[1] = "already_handled" ) =>
                npc_active_event = <<>> )
    /\ [][ /\ \A index \in 0 .. 3 :
                ( /\ game_state = "Some"
                  /\ player.is_alive
                  /\ index < Len(today_npcs)
                  /\ today_npcs[Min(index + 1, Len(today_npcs))].interacted
                  /\ trigger_npc_event(index) ) =>
                    /\ npc_interaction_message' =
                            <<"already_handled", today_npcs[index + 1].id>>
                    /\ npc_active_event' = <<>>
                    /\ UNCHANGED <<player, today_npcs>>
           /\ \A decision \in {"accept", "reject"} :
                ( /\ game_state = "Some"
                  /\ player.is_alive
                  /\ npc_interaction_message # <<>>
                  /\ npc_interaction_message[1] = "already_handled"
                  /\ resolve_active_npc_event(decision) ) =>
                    UNCHANGED <<player, today_npcs, npc_active_event,
                                npc_interaction_message>>
         ]_vars

\* The first NPC of the subset was resolved and then probed again while the
\* second is still open: the already-handled message of the first stands,
\* no prompt is up, the one history line is the one of the resolution.
C32_Witness ==
    /\ game_state = "Some"
    /\ player.is_alive
    /\ Len(today_npcs) >= 2
    /\ today_npcs[1].interacted
    /\ ~today_npcs[2].interacted
    /\ npc_interaction_message = <<"already_handled", today_npcs[1].id>>
    /\ npc_active_event = <<>>
    /\ Len(player.history) = 1

\* C38: in every state an active NPC prompt names an index within today's
\* subset, of an NPC not yet interacted with, and the message of the
\* already-handled branch of resolve_active_npc_event is never set.  So a
\* resolve call that finds a prompt and the player alive always grants: it
\* sets the flag of that NPC, records the resolution and takes the prompt
\* down.
C38_PromptNamesOpenNpc ==
    /\ [] ( game_state = "Some" =>
                /\ npc_active_event # <<>> =>
                        /\ npc_active_event[1].npc_index \in 0 .. (Len(today_npcs) - 1)
                        /\ ~today_npcs[Min(npc_active_event[1].npc_index + 1,
                                           Len(today_npcs))].interacted
                /\ npc_interaction_message # <<>> =>
                        npc_interaction_message[1] # "finished" )
    /\ [][ \A decision \in {"accept", "reject"} :
                ( /\ game_state = "Some"
                  /\ player.is_alive
                  /\ npc_active_event # <<>>
                  /\ resolve_active_npc_event(decision) ) =>
                    /\ Records("npc")
                    /\ npc_interaction_message'[1] = "resolved"
                    /\ npc_active_event' = <<>>
                    /\ today_npcs'[npc_active_event[1].npc_index + 1].interacted
         ]_vars

\* The prompt of the third NPC of the subset is up after the first two were
\* resolved: it names the one NPC still open.
C38_Witness ==
    /\ game_state = "Some"
    /\ player.is_alive
    /\ Len(today_npcs) = 3
    /\ today_npcs[1].interacted
    /\ today_npcs[2].interacted
    /\ ~today_npcs[3].interacted
    /\ npc_active_event # <<>>
    /\ npc_active_event[1].npc_index = 2
    /\ Len(player.history) = 2

----------------------------------------------------------------------------
(* Properties of today's NPC subset, checked under SpecSubset. *)

----------------------------------------------------------------------------
(* Properties of the end of a session, checked under SpecTerminal. *)

\* C39: death ends the session.  Whenever the player of a session is not
\* alive the phase is GameOver; every step taken from such a state either
\* keeps the session, in phase GameOver with the player not alive and with
\* the skills, the pressure, the experience, realm_level, the history,
\* days_played and current_day as they were, or is the restart, which leaves
\* the application as GameApp::new builds it.
C39_DeathIsTerminal ==
    /\ [] ((game_state = "Some" /\ ~player.is_alive) => phase = "GameOver")
    /\ [][ (game_state = "Some" /\ ~player.is_alive) =>
                \/ /\ game_state' = "Some"
                   /\ phase' = "GameOver"
                   /\ ~player'.is_alive
                   /\ UNCHANGED <<player.skills, player.pressure, player.experience,
                                  player.realm_level, player.history,
                                  player.days_played, current_day>>
                \/ GameApp_new'
         ]_vars

\* The player died at the next-day request of the day, after the daily and
\* the weekly choice and with an NPC prompt up; a resolve call made since then
\* has been answered with the advisory and has granted nothing.
C39_Witness ==
    /\ game_state = "Some"
    /\ phase = "GameOver"
    /\ ~player.is_alive
    /\ npc_interaction_message = <<"left_company">>
    /\ npc_active_event = <<>>
    /\ \A i \in DOMAIN today_npcs : ~today_npcs[i].interacted
    /\ Len(player.history) = LateChoices
    /\ player.history[Len(player.history)].record[1] = "weekly"

----------------------------------------------------------------------------
(* Properties of the start of a session, checked under SpecRestart. *)

\* The state of a session that has just begun, for the name entered.
FreshSession ==
    /\ phase = "EventDisplay"
    /\ current_day = 1
    /\ current_week = 1
    /\ today_weekly_event = <<>>
    /\ ~event_chosen_today
    /\ ~weekly_event_chosen_today
    /\ npc_active_event = <<>>
    /\ npc_interaction_message = <<>>
    /\ FreshSubset(today_npcs)
    /\ Presents(today_event, DailyTable)
    /\ player.name = player_name
    /\ player.skills = 0
    /\ player.pressure = 0
    /\ player.experience = u32(0)
    /\ player.realm_level = 1
    /\ player.promotion_attempts = 0
    /\ player.is_alive
    /\ player.history = <<>>
    /\ player.days_played = 0
    /\ player.zero_pressure_streak = 0
    /\ ~player.died_from_zero_pressure

\* C21: every session begins on day 1 of week 1 with no weekly event, both
\* chosen-today guards clear, no NPC prompt, and a player with skills 0,
\* pressure 0, experience 0, realm_level 1, no promotion attempts, alive, with
\* an empty history; and the restart leaves the application as GameApp::new
\* builds it, with nothing of the session it discards.
C21_FreshSession ==
    [][ /\ (game_state = "None" /\ game_state' = "Some") => FreshSession'
        /\ (phase = "GameOver" /\ phase' # "GameOver") => GameApp_new'
      ]_vars

\* A session begun after a restart, at its first state.
C21_Witness ==
    /\ game_state = "Some"
    /\ player.name = "Test"
    /\ current_day = 1
    /\ player.days_played = 0
    /\ player.history = <<>>
    /\ result_message = <<>>

----------------------------------------------------------------------------
(* Unit specifications: one PlayerState, or one pure function, called on   *)
(* its own outside of a session.  pending holds the calls still to make,   *)
(* applied the calls made.                                                 *)

\* No session is open; the player record p stands alone.
NoSession(p) ==
    /\ phase = "Start"
    /\ game_state = "None"
    /\ player_name = ""
    /\ result_message = <<>>
    /\ player = p
    /\ current_day = 0
    /\ current_week = 0
    /\ today_event = [id |-> 0, shuffled_options |-> <<>>]
    /\ today_weekly_event = <<>>
    /\ event_chosen_today = FALSE
    /\ weekly_event_chosen_today = FALSE
    /\ today_npcs = <<>>
    /\ npc_interaction_message = <<>>
    /\ npc_active_event = <<>>

session_vars ==
    <<app_vars, current_day, current_week, today_event, today_weekly_event,
      event_chosen_today, weekly_event_chosen_today, today_npcs,
      npc_interaction_message, npc_active_event>>

(* SpecReward: MaxRewardCalls calls of gain_reward on a fresh player. *)

\* The (skill_points, pressure_change) arguments drawn: both ends of i32,
\* a negative, zero and a positive skill delta.
RewardDeltas == {I32Min, -5, 0, 3, I32Max} \X {-10, 60}

InitReward ==
    /\ NoSession(new_player("Test"))
    /\ pending \in [1 .. MaxRewardCalls -> RewardDeltas]
    /\ applied = <<>>

RewardCall ==
    /\ pending # <<>>
    /\ player' = gain_reward(player, Head(pending)[1], Head(pending)[2])
    /\ applied' = Append(applied, Head(pending))
    /\ pending' = Tail(pending)
    /\ UNCHANGED session_vars

NextReward == RewardCall

SpecReward == InitReward /\ [][NextReward]_vars

\* The sum of the skill deltas of the calls, kept within i32 after each call.
RECURSIVE SkillSum(_)
SkillSum(calls) ==
    IF calls = <<>> THEN 0
    ELSE LET before == SkillSum(SubSeq(calls, 1, Len(calls) - 1))
             delta == calls[Len(calls)][1]
         IN  IF delta >= 0
             THEN IF before > I32Max - delta THEN I32Max ELSE before + delta
             ELSE IF before < I32Min - delta THEN I32Min ELSE before + delta

\* The sum of the skill deltas of the calls as a u32, kept at u32::MAX once
\* it gets there.
RECURSIVE ExperienceSum(_)
ExperienceSum(calls) ==
    IF calls = <<>> THEN u32(0)
    ELSE saturating_add_u32(ExperienceSum(SubSeq(calls, 1, Len(calls) - 1)),
                            u32(calls[Len(calls)][1]))

IsGain(call) == call[1] > 0

\* C5: after every sequence of gain_reward calls on a fresh player the skills
\* are the saturating sum of all the skill deltas and the experience is the
\* saturating sum of the strictly positive ones alone, so a call with a delta
\* of zero or less has left the experience as it was.
C5_RewardSums ==
    /\ player.skills = SkillSum(applied)
    /\ player.experience = ExperienceSum(SelectSeq(applied, IsGain))

\* i32::MAX, then a negative delta, then i32::MAX again: the skills are back
\* at the upper end and the experience holds the two gains.
C5_Witness ==
    /\ Len(applied) = 3
    /\ applied[1][1] = I32Max
    /\ applied[2][1] < 0
    /\ applied[3][1] = I32Max
    /\ player.skills = I32Max
    /\ player.experience = [hi |-> 1, lo |-> I32Max - 1]

(* SpecHistory: MaxAppends calls of add_history on a fresh player, call n  *)
(* with the record n and the same pair of changes.                         *)

\* The (skill_change, pressure_change) arguments drawn for a run.
HistoryChanges == {-3, 5} \X {-2, 0}

InitHistory ==
    /\ NoSession(new_player("Test"))
    /\ pending \in {[n \in 1 .. MaxAppends |-> changes] : changes \in HistoryChanges}
    /\ applied = <<>>

HistoryCall ==
    /\ pending # <<>>
    /\ player' = add_history(player, <<"call", Len(applied) + 1>>,
                             Head(pending)[1], Head(pending)[2])
    /\ applied' = Append(applied, Head(pending))
    /\ pending' = Tail(pending)
    /\ UNCHANGED session_vars

NextHistory == HistoryCall

SpecHistory == InitHistory /\ [][NextHistory]_vars

\* The line that call n of the run pushed.
CallLine(n) ==
    history_line(new_player("Test"), <<"call", n>>, applied[n][1], applied[n][2])

\* C8: after every add_history call the history holds at most 100 lines: all
\* the lines pushed while there are at most 100, and from the 101st call on
\* the lines of the latest 100 calls in the order of the calls, the oldest
\* line being the one each further call evicts.
C8_HistoryKeepsLatest ==
    LET calls == Len(applied)
        kept == Len(player.history)
    IN  /\ kept <= 100
        /\ kept = IF calls <= 100 THEN calls ELSE 100
        /\ \A i \in 1 .. kept : player.history[i] = CallLine(calls - kept + i)

\* The 101st call has evicted the line of the first: the lines of calls
\* 2 to 101 are left.
C8_Witness ==
    /\ Len(applied) = 101
    /\ Len(player.history) = 100
    /\ player.history[1].record = <<"call", 2>>
    /\ player.history[100].record = <<"call", 101>>

(* SpecRealm: Realm::from_experience on one experience value. *)

\* The experience values drawn: 0..MaxExp and the upper values of u32.
ExpValues ==
    {u32(e) : e \in 0 .. MaxExp} \cup {u32(I32Max), [hi |-> 1, lo |-> 0], U32Max}

InitRealm ==
    /\ NoSession(new_player("Test"))
    /\ pending \in {<<exp>> : exp \in ExpValues}
    /\ applied = <<>>

RealmCall ==
    /\ pending # <<>>
    /\ applied' = Append(applied, [exp |-> Head(pending),
                                   realm |-> from_experience(Head(pending))])
    /\ pending' = Tail(pending)
    /\ UNCHANGED <<session_vars, player>>

NextRealm == RealmCall

SpecRealm == InitRealm /\ [][NextRealm]_vars

\* The five bands of the tier table.
RealmBand(exp) ==
    IF exp.hi = 0 /\ exp.lo \in 0 .. 50 THEN 1
    ELSE IF exp.hi = 0 /\ exp.lo \in 51 .. 150 THEN 2
    ELSE IF exp.hi = 0 /\ exp.lo \in 151 .. 300 THEN 3
    ELSE IF exp.hi = 0 /\ exp.lo \in 301 .. 500 THEN 4
    ELSE 5

\* C9: the realm of an experience value e is rank 1 for e in 0..50, 2 for
\* 51..150, 3 for 151..300, 4 for 301..500 and 5 from 501 on, and no smaller
\* experience value has a higher rank.
C9_RealmBands ==
    \A k \in DOMAIN applied :
        /\ applied[k].realm = RealmBand(applied[k].exp)
        /\ \A lower \in ExpValues :
                u32_le(lower, applied[k].exp) => from_experience(lower) <= applied[k].realm

\* The realm of 151, the first value of the third band, was computed.
C9_Witness ==
    /\ applied # <<>>
    /\ applied[1].exp = u32(151)
    /\ applied[1].realm = 3

(* SpecDeath: one check_death on a living player of any pressure. *)

\* The skills and the zero-pressure streaks drawn.
DeathSkills == {-3, -1, 0, 4}
MaxStreak == 2

InitDeath ==
    /\ \E skills \in DeathSkills, pressure \in 0 .. 100, streak \in 0 .. MaxStreak :
            NoSession([new_player("Test") EXCEPT !.skills = skills,
                                                 !.pressure = pressure,
                                                 !.zero_pressure_streak = streak])
    /\ pending = <<"check_death">>
    /\ applied = <<>>

DeathCall ==
    /\ pending # <<>>
    /\ \E zero_roll \in ZeroRolls(player), death_roll \in DeathRolls(player) :
            player' = check_death(player, zero_roll, death_roll)
    /\ applied' = Append(applied, player)
    /\ pending' = Tail(pending)
    /\ UNCHANGED session_vars

NextDeath == DeathCall

SpecDeath == InitDeath /\ [][NextDeath]_vars

\* C10: a check_death on a player whose skills are below 0 leaves the player
\* not alive, at every pressure and under every outcome of the two trials.
C10_NegativeSkillsDie ==
    \A k \in DOMAIN applied :
        applied[k].skills < 0 => ~player.is_alive

\* A player with negative skills at pressure 0, on a streak, was checked; the
\* zero-pressure trial missed and the skills branch ended the session.
C10_Witness ==
    /\ applied # <<>>
    /\ applied[1].skills < 0
    /\ applied[1].pressure = 0
    /\ applied[1].zero_pressure_streak >= 1
    /\ ~player.is_alive
    /\ ~player.died_from_zero_pressure

\* C31: a check_death on a player whose skills are at least 0 never kills at
\* a pressure in 1..19; at pressure 0 it kills only through the zero-pressure
\* branch (died_from_zero_pressure set); at a pressure in 20..100 the second
\* trial has both outcomes, one leaving the player alive and one not.
C31_DeathByBand ==
    \A k \in DOMAIN applied :
        LET before == applied[k]
        IN  before.skills >= 0 =>
                /\ before.pressure \in 1 .. 19 => player.is_alive
                /\ (before.pressure = 0 /\ ~player.is_alive) =>
                        player.died_from_zero_pressure
                /\ before.pressure \in 20 .. 100 =>
                        /\ DeathRolls(before) = {TRUE, FALSE}
                        /\ \A zero_roll \in ZeroRolls(before) :
                                /\ check_death(before, zero_roll, FALSE).is_alive
                                /\ ~check_death(before, zero_roll, TRUE).is_alive

\* A player with skills 0 at pressure 20, the lowest pressure that can kill,
\* was checked and died of the pressure draw.
C31_Witness ==
    /\ applied # <<>>
    /\ applied[1].skills = 0
    /\ applied[1].pressure = 20
    /\ ~player.is_alive
    /\ ~player.died_from_zero_pressure

(* SpecStreak: MaxStreakCalls calls of gain_reward and check_death on a    *)
(* fresh player, in every order; the calls stop when the player has died.  *)
(* applied holds one record per check_death made.                          *)

\* The calls drawn: check_death, and gain_reward with three rewards of the
\* catalog (options B and C of daily event 0, option C of daily event 1).
StreakCalls ==
    {<<"check_death">>, <<"gain_reward", 2, 5>>, <<"gain_reward", 3, -3>>,
     <<"gain_reward", -5, -6>>}

InitStreak ==
    /\ NoSession(new_player("Test"))
    /\ pending \in [1 .. MaxStreakCalls -> StreakCalls]
    /\ applied = <<>>

StreakGain ==
    /\ pending # <<>>
    /\ player.is_alive
    /\ Head(pending)[1] = "gain_reward"
    /\ player' = gain_reward(player, Head(pending)[2], Head(pending)[3])
    /\ pending' = Tail(pending)
    /\ UNCHANGED <<session_vars, applied>>

StreakCheck ==
    /\ pending # <<>>
    /\ player.is_alive
    /\ Head(pending)[1] = "check_death"
    /\ \E zero_roll \in ZeroRolls(player), death_roll \in DeathRolls(player) :
            /\ player' = check_death(player, zero_roll, death_roll)
            /\ applied' = Append(applied, [before |-> player,
                                           zero_rolls |-> ZeroRolls(player),
                                           zero_roll |-> zero_roll,
                                           after |-> player'])
    /\ pending' = Tail(pending)
    /\ UNCHANGED session_vars

NextStreak == StreakGain \/ StreakCheck

SpecStreak == InitStreak /\ [][NextStreak]_vars

\* C11: a check_death can end in a zero-pressure death (not alive, with
\* died_from_zero_pressure set) exactly when the pressure is 0 at that check
\* and was 0 at the check before it, which is when the streak after the
\* increment is at least 2.  When the draw hits, the player dies of it
\* whatever the skills are, negative skills included, and no other check sets
\* the flag; the first check of a player can never end that way.
C11_ZeroPressureDeath ==
    \A k \in DOMAIN applied :
        LET check == applied[k]
            two_zero == /\ k >= 2
                        /\ check.before.pressure = 0
                        /\ applied[k - 1].before.pressure = 0
        IN  /\ (TRUE \in check.zero_rolls) <=> two_zero
            /\ two_zero <=> check.after.zero_pressure_streak >= 2
            /\ check.zero_roll =>
                    (~check.after.is_alive /\ check.after.died_from_zero_pressure)
            /\ check.after.died_from_zero_pressure => (two_zero /\ check.zero_roll)
            /\ k = 1 => ~check.after.died_from_zero_pressure

\* A player whose skills fell below 0 at pressure 0 was checked a second time
\* in a row at pressure 0 and died of the zero-pressure draw, not of the skills.
C11_Witness ==
    /\ Len(applied) >= 2
    /\ applied[Len(applied)].before.skills < 0
    /\ applied[Len(applied)].before.pressure = 0
    /\ applied[Len(applied) - 1].before.pressure = 0
    /\ ~player.is_alive
    /\ player.died_from_zero_pressure

\* The number of check_death calls made at pressure 0 since the last one made
\* at another pressure, or since the player was created.
TrailingZeroChecks ==
    Cardinality({k \in DOMAIN applied :
                    \A j \in k .. Len(applied) : applied[j].before.pressure = 0})

\* C40: in every state died_from_zero_pressure implies that the player is
\* not alive, at pressure 0, with a zero-pressure streak of at least 2; and
\* the streak is the number of the most recent consecutive check_death calls
\* made at pressure 0: 0 after a check at any other pressure, and left as it
\* is by the gain_reward calls in between.
C40_StreakCountsZeroChecks ==
    /\ player.died_from_zero_pressure =>
            /\ ~player.is_alive
            /\ player.pressure = 0
            /\ player.zero_pressure_streak >= 2
    /\ player.zero_pressure_streak = TrailingZeroChecks

\* Two checks in a row at pressure 0 brought the streak to 2 and the player
\* survived the draw; a gain_reward then raised the pressure to 5 and left
\* the streak at 2, and the check after it has set the streak back to 0.
C40_Witness ==
    /\ Len(applied) = 3
    /\ applied[2].after.zero_pressure_streak = 2
    /\ applied[3].before.zero_pressure_streak = 2
    /\ applied[3].before.pressure = 5
    /\ player.zero_pressure_streak = 0
    /\ player.is_alive
    /\ ~player.died_from_zero_pressure

(* SpecPromotion: can_promote or attempt_promotion called once on a player *)
(* of any skills, realm_level and promotion_attempts, and can_promote      *)
(* called on a fresh player after gain_reward(60, 10).  applied holds one  *)
(* record per call.                                                        *)

\* The skills drawn: both ends of i32, the values around 0 and around each
\* requirement of can_promote.
PromotionSkills ==
    {I32Min, -3, -1, 0, 1, 2, 7, 49, 50, 51, 149, 150, 151, 299, 300, 301,
     499, 500, 501, 9998, 9999, 10000, I32Max}

\* The players drawn.
PromotionPlayers ==
    {[new_player("Test") EXCEPT !.skills = skills,
                                !.realm_level = realm_level,
                                !.promotion_attempts = promotion_attempts,
                                !.experience = u32(experience),
                                !.pressure = pressure] :
        skills \in PromotionSkills, realm_level \in 1 .. MaxLevel,
        promotion_attempts \in 0 .. MaxTries, experience \in {0, 50, 600},
        pressure \in {0, 37}}

InitPromotion ==
    /\ \/ /\ \E p \in PromotionPlayers : NoSession(p)
          /\ pending \in {<< <<"can_promote">> >>, << <<"attempt_promotion">> >>}
       \/ /\ NoSession(new_player("Test"))
          /\ pending = << <<"gain_reward", 60, 10>>, <<"can_promote">> >>
    /\ applied = <<>>

\* The record of a call: the player before and after, what the call returned,
\* and the failure rate and the announced percentage of the player before.
CallRecord(call, after, returned) ==
    [call |-> call, before |-> player, after |-> after, returned |-> returned,
     failure_rate |-> failure_rate(player),
     failure_percent |-> failure_percent(player)]

PromotionGain ==
    /\ pending # <<>>
    /\ Head(pending)[1] = "gain_reward"
    /\ player' = gain_reward(player, Head(pending)[2], Head(pending)[3])
    /\ applied' = Append(applied, CallRecord("gain_reward", player', <<>>))
    /\ pending' = Tail(pending)
    /\ UNCHANGED session_vars

CanPromoteCall ==
    /\ pending # <<>>
    /\ Head(pending)[1] = "can_promote"
    /\ applied' = Append(applied, CallRecord("can_promote", player, <<can_promote(player)>>))
    /\ pending' = Tail(pending)
    /\ UNCHANGED <<session_vars, player>>

AttemptCall ==
    /\ pending # <<>>
    /\ Head(pending)[1] = "attempt_promotion"
    /\ \E failed \in Trial(failure_rate(player)) :
            /\ player' = attempt_promotion(player, failed)
            /\ applied' = Append(applied,
                    CallRecord("attempt_promotion", player',
                               <<~failed, promotion_message(player, failed)>>))
    /\ pending' = Tail(pending)
    /\ UNCHANGED session_vars

NextPromotion == PromotionGain \/ CanPromoteCall \/ AttemptCall

SpecPromotion == InitPromotion /\ [][NextPromotion]_vars

\* C13: can_promote is true exactly when the skills are at least the
\* requirement of the realm_level: 50 at level 1, 150 at level 2, 300 at level
\* 3, 500 at level 4; a fresh player who has gained (+60, +10) can promote.
C13_CanPromoteRequirement ==
    \A k \in DOMAIN applied :
        applied[k].call = "can_promote" =>
            LET level == applied[k].before.realm_level
                skills == applied[k].before.skills
                answer == applied[k].returned[1]
            IN  /\ level = 1 => (answer <=> skills >= 50)
                /\ level = 2 => (answer <=> skills >= 150)
                /\ level = 3 => (answer <=> skills >= 300)
                /\ level = 4 => (answer <=> skills >= 500)
                /\ (k = 2 /\ applied[1].call = "gain_reward"
                          /\ applied[1].before = new_player("Test")) => answer

\* The fresh player gained (+60, +10) and can_promote answered true.
C13_Witness ==
    /\ Len(applied) = 2
    /\ applied[1].call = "gain_reward"
    /\ applied[1].before = new_player("Test")
    /\ player.skills = 60
    /\ player.pressure = 10
    /\ player.realm_level = 1
    /\ applied[2].returned = <<TRUE>>

\* C14: promotion is exhausted at realm_level 5: every can_promote asked of a
\* player whose realm_level is 5 or more answers false, so that no promotion
\* is offered to such a player and the realm_level stays at 5.
C14_PromotionExhausted ==
    \A k \in DOMAIN applied :
        (applied[k].call = "can_promote" /\ applied[k].before.realm_level >= 5) =>
            applied[k].returned = <<FALSE>>

\* C15: the failure rate of attempt_promotion, in percent, is the smaller of
\* 95 and 5 * (promotion_attempts + 1): 5 with no failed attempt so far, more
\* with each failed attempt while it is below 95, and 95 from 18 failed
\* attempts on; the percentage the promotion prompt announces for the player
\* is the same number, and both outcomes of the attempt occur at every rate.
C15_FailureRate ==
    \A k \in DOMAIN applied :
        applied[k].call = "attempt_promotion" =>
            LET before == applied[k].before
                attempts == before.promotion_attempts
                rate == applied[k].failure_rate
            IN  /\ attempts = 0 => rate = 5
                /\ attempts < 18 =>
                        /\ rate = 5 * (attempts + 1)
                        /\ rate < 95
                        /\ rate < failure_rate([before EXCEPT !.promotion_attempts = attempts + 1])
                /\ attempts >= 18 => rate = 95
                /\ applied[k].failure_percent = rate
                /\ Trial(rate) = {TRUE, FALSE}

\* After 18 failed attempts one more attempt was made at a rate of 95 percent
\* and succeeded.
C15_Witness ==
    /\ Len(applied) = 1
    /\ applied[1].call = "attempt_promotion"
    /\ applied[1].before.promotion_attempts = 18
    /\ applied[1].failure_rate = 95
    /\ applied[1].returned[1]

\* C16: a failed attempt_promotion loses skills / 2 rounded toward zero and
\* reports that amount: the skills after are the skills before minus the
\* amount (skills of 0 or more stay 0 or more, skills of 1 lose nothing),
\* promotion_attempts is one more than before, and realm_level, experience
\* and pressure are as before.
C16_FailedPromotion ==
    \A k \in DOMAIN applied :
        (applied[k].call = "attempt_promotion" /\ ~applied[k].returned[1]) =>
            LET before == applied[k].before
                after == applied[k].after
                lost == applied[k].returned[2][2]
                rest == before.skills - lost
            IN  /\ applied[k].returned[2][1] = "promotion_failed"
                /\ before.skills >= 0 => (lost >= 0 /\ rest - lost \in {0, 1})
                /\ before.skills < 0 => (lost <= 0 /\ rest - lost \in {0, -1})
                /\ after.skills = rest
                /\ before.skills >= 0 => after.skills >= 0
                /\ before.skills = 1 => (lost = 0 /\ after.skills = 1)
                /\ after.promotion_attempts = before.promotion_attempts + 1
                /\ after.realm_level = before.realm_level
                /\ after.experience = before.experience
                /\ after.pressure = before.pressure

\* An attempt of a player with skills of -3 failed: 1 skill point of debt was
\* taken off, which leaves -2.
C16_Witness ==
    /\ Len(applied) = 1
    /\ applied[1].call = "attempt_promotion"
    /\ ~applied[1].returned[1]
    /\ applied[1].before.skills = -3
    /\ applied[1].returned[2] = <<"promotion_failed", -1>>
    /\ player.skills = -2

\* C17: a successful attempt_promotion raises realm_level by exactly 1, sets
\* promotion_attempts to 0 and leaves skills, pressure and experience as
\* they were.
C17_SuccessfulPromotion ==
    \A k \in DOMAIN applied :
        (applied[k].call = "attempt_promotion" /\ applied[k].returned[1]) =>
            LET before == applied[k].before
                after == applied[k].after
            IN  /\ after.realm_level = before.realm_level + 1
                /\ after.promotion_attempts = 0
                /\ after.skills = before.skills
                /\ after.pressure = before.pressure
                /\ after.experience = before.experience

\* An attempt after three failed ones succeeded: the level went from 2 to 3
\* and the count of failed attempts back to 0.
C17_Witness ==
    /\ Len(applied) = 1
    /\ applied[1].call = "attempt_promotion"
    /\ applied[1].returned[1]
    /\ applied[1].before.promotion_attempts = 3
    /\ applied[1].before.realm_level = 2
    /\ player.realm_level = 3
    /\ player.promotion_attempts = 0
    /\ player.skills = applied[1].before.skills

====
